---- MODULE Spec2Model ----
(***************************************************************************)
(* Verification model of the ocean-freight-optimizer repository.           *)
(*                                                                         *)
(*   - select_destination / _calculate_match_score / _verify_destination_  *)
(*     selection        (src/url_checker_package/destination_selector.py)  *)
(*   - add_ocean_rates / add_total_rates / add_cost_ranking                *)
(*                                             (src/data_processor.py)     *)
(*   - get_hapag_route row scan                (src/api_server.py)         *)
(*   - extract_import_surcharges_table / save_to_excel                     *)
(*                                             (src/hapag_checker.py)      *)
(*   - DataExtractor / ExcelExporter           (src/hapag_module/)         *)
(*                                                                         *)
(* Python strings are TLA+ strings; TLC evaluates Len, SubSeq and \o on    *)
(* them, so every text operation below works on the characters.            *)
(***************************************************************************)
EXTENDS Integers, Sequences, FiniteSets, TLC

(***************************************************************************)
(* Python values                                                           *)
(***************************************************************************)
\* Python's None (no label, cell or description of the inputs is this text).
None == "<None>"

\* A cell of a pandas frame: a number, a text, or missing.
Num(v) == [kind |-> "num", val |-> v, text |-> ""]

Str(s) == [kind |-> "str", val |-> 0, text |-> s]

\* NaN / None of a pandas column (a missing Ocean Rate or Total Rate).
NaN == [kind |-> "nan", val |-> 0, text |-> ""]

\* pd.isna / Series.notna
isna(cell) == cell.kind = "nan"

(***************************************************************************)
(* str operations                                                          *)
(***************************************************************************)
\* s[i] with i counted from 1.
CharAt(s, i) == SubSeq(s, i, i)

\* s[i-1:] : the text from position i (counted from 1) on. Here and below an
\* argument that a definition uses several times is bound once (v \in {s}), so
\* that it is computed once.
From(s, i) == CHOOSE r \in {SubSeq(v, i, Len(v)) : v \in {s}} : TRUE

\* s[:n]
Take(s, n) == SubSeq(s, 1, IF n < Len(s) THEN n ELSE Len(s))

RECURSIVE IndexFrom(_, _, _)
\* The first position at or after i of character c in s, 0 when it does not occur.
IndexFrom(c, s, i) ==
    IF i > Len(s) THEN 0
    ELSE IF CharAt(s, i) = c THEN i
    ELSE IndexFrom(c, s, i + 1)

\* The first position of character c in s, 0 when it does not occur.
IndexOf(c, s) == IndexFrom(c, s, 1)

\* str.upper() of one character, as a table.
UpperOf ==
    "a" :> "A" @@ "b" :> "B" @@ "c" :> "C" @@ "d" :> "D" @@ "e" :> "E" @@ "f" :> "F"
    @@ "g" :> "G" @@ "h" :> "H" @@ "i" :> "I" @@ "j" :> "J" @@ "k" :> "K" @@ "l" :> "L"
    @@ "m" :> "M" @@ "n" :> "N" @@ "o" :> "O" @@ "p" :> "P" @@ "q" :> "Q" @@ "r" :> "R"
    @@ "s" :> "S" @@ "t" :> "T" @@ "u" :> "U" @@ "v" :> "V" @@ "w" :> "W" @@ "x" :> "X"
    @@ "y" :> "Y" @@ "z" :> "Z"

\* str.lower() of one character, as a table.
LowerOf ==
    "A" :> "a" @@ "B" :> "b" @@ "C" :> "c" @@ "D" :> "d" @@ "E" :> "e" @@ "F" :> "f"
    @@ "G" :> "g" @@ "H" :> "h" @@ "I" :> "i" @@ "J" :> "j" @@ "K" :> "k" @@ "L" :> "l"
    @@ "M" :> "m" @@ "N" :> "n" @@ "O" :> "o" @@ "P" :> "p" @@ "Q" :> "q" @@ "R" :> "r"
    @@ "S" :> "s" @@ "T" :> "t" @@ "U" :> "u" @@ "V" :> "v" @@ "W" :> "w" @@ "X" :> "x"
    @@ "Y" :> "y" @@ "Z" :> "z"

UpperChar(c) == IF c \in DOMAIN UpperOf THEN UpperOf[c] ELSE c

LowerChar(c) == IF c \in DOMAIN LowerOf THEN LowerOf[c] ELSE c

RECURSIVE Upper(_)
\* str.upper()
Upper(s) == IF s = "" THEN "" ELSE UpperChar(CharAt(s, 1)) \o Upper(From(s, 2))

RECURSIVE Lower(_)
\* str.lower()
Lower(s) ==
    CHOOSE r \in {IF v = "" THEN "" ELSE LowerChar(CharAt(v, 1)) \o Lower(From(v, 2)) :
                     v \in {s}} : TRUE

RECURSIVE Replace(_, _, _)
\* str.replace(a, b) for a one-character a.
Replace(s, a, b) ==
    IF s = "" THEN ""
    ELSE (IF CharAt(s, 1) = a THEN b ELSE CharAt(s, 1)) \o Replace(From(s, 2), a, b)

\* Python's whitespace as far as the inputs hold any: space, tab, newline.
IsSpace(c) == c \in {" ", "\t", "\n", "\r"}

IsDigit(c) == c \in {"0", "1", "2", "3", "4", "5", "6", "7", "8", "9"}

IsUpperLetter(c) == c \in DOMAIN LowerOf

RECURSIVE LStrip(_)
LStrip(s) ==
    CHOOSE r \in {IF v # "" /\ IsSpace(CharAt(v, 1)) THEN LStrip(From(v, 2)) ELSE v :
                     v \in {s}} : TRUE

RECURSIVE RStrip(_)
RStrip(s) ==
    IF s # "" /\ IsSpace(CharAt(s, Len(s))) THEN RStrip(SubSeq(s, 1, Len(s) - 1)) ELSE s

\* str.strip()
Strip(s) == RStrip(LStrip(s))

\* t in s
Contains(s, t) ==
    \E v \in {s} : \E i \in 0..(Len(v) - Len(t)) : SubSeq(v, i + 1, i + Len(t)) = t

\* s.startswith(t)
StartsWith(s, t) == Len(t) <= Len(s) /\ SubSeq(s, 1, Len(t)) = t

RECURSIVE Split(_, _)
\* s.split(d) for a one-character d: empty pieces are kept.
Split(s, d) ==
    LET i == IndexOf(d, s)
    IN  IF i = 0 THEN <<s>>
        ELSE <<SubSeq(s, 1, i - 1)>> \o Split(From(s, i + 1), d)

RECURSIVE FirstSpaceFrom(_, _)
FirstSpaceFrom(s, i) ==
    CHOOSE r \in {IF j > Len(v) THEN 0
                  ELSE IF IsSpace(CharAt(v, j)) THEN j
                  ELSE FirstSpaceFrom(v, j + 1) : v \in {s}, j \in {i}} : TRUE

\* The first position of a whitespace character in s, 0 when there is none.
FirstSpace(s) == FirstSpaceFrom(s, 1)

RECURSIVE Words(_)
\* s.split(): the maximal runs of non-whitespace.
Words(s) ==
    CHOOSE r \in {IF t = "" THEN <<>>
                  ELSE IF i = 0 THEN <<t>>
                  ELSE <<SubSeq(t, 1, i - 1)>> \o Words(From(t, i + 1)) :
                     <<t, i>> \in {<<LStrip(s), FirstSpace(LStrip(s))>>}} : TRUE

\* [p.strip() for p in s.split(',')]
CommaParts(s) == LET ps == Split(s, ",") IN [k \in 1..Len(ps) |-> Strip(ps[k])]

\* x in list
InList(x, list) == \E k \in 1..Len(list) : list[k] = x

(***************************************************************************)
(* Bounds of the model                                                     *)
(***************************************************************************)
\* Largest number of option elements the dropdown holds.
MaxOptions == 2

(***************************************************************************)
(* State                                                                   *)
(***************************************************************************)
VARIABLES
    \* select_destination
    destination_name,       \* the argument
    option_elements,        \* the texts of the dropdown's option elements, in DOM order
    sel_pc,                 \* position in select_destination
    all_dropdown_options,   \* list of (idx, text) read from the DOM
    unavailable_options,    \* texts carrying the no-rates marker
    scan_pos,               \* options of all_dropdown_options scored so far
    best_score,
    best_match_index,
    best_option_text,
    clicked,                \* texts of the options committed (clicked, or Enter pressed)
    sel_result,             \* the returned dict, None before the return
    focus_texts,            \* keyboard fallback: the text read after each ARROW_DOWN
    kb_i,                   \* keyboard fallback: the loop index i
    options_checked         \* keyboard fallback: the texts scored so far

selVars == <<destination_name, option_elements, sel_pc, all_dropdown_options,
             unavailable_options, scan_pos, best_score, best_match_index,
             best_option_text, clicked, sel_result, focus_texts, kb_i,
             options_checked>>

VARIABLES
    \* data_processor
    inland_df,              \* the inland-rate frame, a list of rows in frame order
    ocean_df,               \* the ocean-freight frame
    rate_pc,                \* position in the processing pipeline
    routes_response         \* api_server.get_routes: the response, status 0 before it

rateVars == <<inland_df, ocean_df, rate_pc, routes_response>>

VARIABLES
    \* api_server.get_hapag_route
    filtered,               \* the rows of the HAPAG frame for the destination
    route_i,                \* the row index i
    route_pc,               \* position in get_hapag_route
    ocean_freight,
    destination_landfreight,
    other_charges,
    landfreight_item,       \* the land-freight record whose sub-options are scanned
    sub_options,
    route_status            \* HTTP status of the response, 0 before it is sent

routeVars == <<filtered, route_i, route_pc, ocean_freight, destination_landfreight,
               other_charges, landfreight_item, sub_options, route_status>>

VARIABLES
    \* hapag_checker / hapag_module: extraction of the surcharge table and export
    table_rows,             \* the table's rows, each the list of its cells' inner texts
    extractor,              \* "hapag_checker" or "DataExtractor"
    route_info,
    export_pc,              \* position in the extraction and export
    header_map,             \* column index -> header text
    header_row_index,
    ext_i,                  \* the row index i of the extraction loop
    data,                   \* the records extracted
    sheet                   \* the data rows written to the worksheet

exportVars == <<table_rows, extractor, route_info, export_pc, header_map,
                header_row_index, ext_i, data, sheet>>

VARIABLES
    \* select_destination, lines 49-110: the argument is parsed and the search
    \* prefix is typed
    query,                  \* the argument destination_name
    query_pc,               \* position in the head of select_destination
    parsed,                 \* city, country and region as parsed
    partial_search,         \* the search prefix
    dest_input              \* the keys sent to the destination input field

queryVars == <<query, query_pc, parsed, partial_search, dest_input>>

VARIABLES
    \* quick_download_package.ExcelManager
    excel_pc,               \* "idle", or "run" while a run uses the manager
    disk,                   \* path -> rows of the workbook there, -1 when no file exists
    first_save_done,
    current_run_filepath,
    written,                \* the paths this run has written successfully
    save_log,               \* the calls of save_to_excel of this run and what they returned
    runs                    \* the runs started so far

excelVars == <<excel_pc, disk, first_save_done, current_run_filepath, written,
               save_log, runs>>

vars == <<selVars, rateVars, routeVars, exportVars, queryVars, excelVars>>

\* No run uses an ExcelManager.
ExcelIdle ==
    /\ excel_pc = "idle"
    /\ disk = <<>>
    /\ first_save_done = FALSE
    /\ current_run_filepath = "<None>"
    /\ written = {}
    /\ save_log = <<>>
    /\ runs = 0

\* No argument is being parsed.
QueryIdle ==
    /\ query = ""
    /\ query_pc = "idle"
    /\ parsed = [city |-> "", country |-> "", region |-> "<None>"]
    /\ partial_search = "<None>"
    /\ dest_input = ""

\* No call of select_destination is under way.
SelectIdle ==
    /\ destination_name = ""
    /\ option_elements = <<>>
    /\ sel_pc = "idle"
    /\ all_dropdown_options = <<>>
    /\ unavailable_options = <<>>
    /\ scan_pos = 0
    /\ best_score = 0
    /\ best_match_index = 0 - 1
    /\ best_option_text = "<None>"
    /\ clicked = <<>>
    /\ sel_result = [success |-> FALSE, selected |-> "<None>", error |-> "<None>"]
    /\ focus_texts = <<>>
    /\ kb_i = 0
    /\ options_checked = <<>>

\* No run of the rate pipeline is under way.
RatesIdle ==
    /\ inland_df = <<>>
    /\ ocean_df = <<>>
    /\ rate_pc = "idle"
    /\ routes_response = [status |-> 0]

\* What an action of one component leaves alone: the state of the others.
outsideSelect == <<rateVars, routeVars, exportVars, queryVars, excelVars>>

outsideRates == <<selVars, routeVars, exportVars, queryVars, excelVars>>

outsideRoute == <<selVars, rateVars, exportVars, queryVars, excelVars>>

outsideExport == <<selVars, rateVars, routeVars, queryVars, excelVars>>

outsideQuery == <<selVars, rateVars, routeVars, exportVars, excelVars>>

outsideExcel == <<selVars, rateVars, routeVars, exportVars, queryVars>>

\* A slot that holds no charge record (None).
NoCharge == [none |-> TRUE]

\* No surcharge table is being extracted.
ExportIdle ==
    /\ table_rows = <<>>
    /\ extractor = "none"
    /\ route_info = [from |-> "", to |-> "", via |-> ""]
    /\ export_pc = "idle"
    /\ header_map = <<>>
    /\ header_row_index = 0 - 1
    /\ ext_i = 0
    /\ data = <<>>
    /\ sheet = <<>>

\* No request of get_hapag_route is under way.
RouteIdle ==
    /\ filtered = <<>>
    /\ route_i = 0
    /\ route_pc = "idle"
    /\ ocean_freight = NoCharge
    /\ destination_landfreight = NoCharge
    /\ other_charges = <<>>
    /\ landfreight_item = NoCharge
    /\ sub_options = <<>>
    /\ route_status = 0

(***************************************************************************)
(* url_checker_package/config.py                                           *)
(***************************************************************************)
EXACT_MATCH_SCORE == 1000

NORMALIZED_MATCH_SCORE == 900

ALL_PARTS_MATCH_SCORE == 800

PARTIAL_MATCH_SCORE == 600

FIRST_WORD_MATCH_SCORE == 400

WEAK_MATCH_SCORE == 200

COUNTRY_BONUS_SCORE == 50

MINIMUM_CONFIDENCE_SCORE == 800

\* option_elements[:20]
DomReadLimit == 20

(***************************************************************************)
(* select_destination: parsing of the argument                             *)
(***************************************************************************)
parts(dest) == CommaParts(dest)

city(dest) == IF Len(parts(dest)) >= 2 THEN parts(dest)[1] ELSE dest

country(dest) == IF Len(parts(dest)) >= 2 THEN parts(dest)[Len(parts(dest))] ELSE dest

\* A parser that takes the second part as region whenever there are three
\* parts or more.
region_fromThreeParts(dest) == IF Len(parts(dest)) >= 3 THEN parts(dest)[2] ELSE None

region(dest) == IF Len(parts(dest)) = 3 THEN parts(dest)[2] ELSE None

\* city.upper().replace('-', ' ').strip()
city_normalized(dest) == Strip(Replace(Upper(city(dest)), "-", " "))

city_parts(dest) == Words(city_normalized(dest))

\* Python truth of an optional string: neither None nor empty.
Truthy(s) == s # None /\ s # ""

(***************************************************************************)
(* _calculate_match_score                                                  *)
(***************************************************************************)
RECURSIVE HeadCutFrom(_, _)
HeadCutFrom(s, i) ==
    IF i > Len(s) THEN 0
    ELSE IF \/ CharAt(s, i) \in {",", "/", "(", ")", "-"}
            \/ (i + 2 <= Len(s) /\ SubSeq(s, i, i + 2) = " - ")
    THEN i
    ELSE HeadCutFrom(s, i + 1)

\* The first position where re.split(r"[,/()\-]| - ", s) cuts, 0 when none.
HeadCut(s) == HeadCutFrom(s, 1)

\* re.split(r"[,/()\-]| - ", option_text)[0].strip()
head(option_text) ==
    LET i == HeadCut(option_text)
    IN  Strip(IF i = 0 THEN option_text ELSE SubSeq(option_text, 1, i - 1))

\* The "CITY, CITY, COUNTRY" special case, which returns at once.
IsDoubledCity(cty, ctry, option_text) ==
    LET option_parts == CommaParts(option_text)
    IN  /\ Len(option_parts) >= 3
        /\ Upper(option_parts[1]) = Upper(option_parts[2])
        /\ Upper(cty) = Upper(option_parts[1])
        /\ Contains(option_text, Upper(ctry))

\* Variant of the tiers: every label holding all city parts scores 800.
BaseTierScore_allPartsAre800(cty, cty_normalized, cty_parts, option_text, option_normalized) ==
    IF Upper(cty) = head(option_text)
    THEN EXACT_MATCH_SCORE
    ELSE IF \/ StartsWith(option_normalized, cty_normalized \o ",")
            \/ StartsWith(option_normalized, cty_normalized \o " -")
            \/ StartsWith(option_normalized, cty_normalized \o " /")
    THEN NORMALIZED_MATCH_SCORE
    ELSE IF \A k \in 1..Len(cty_parts) : Contains(option_normalized, cty_parts[k])
    THEN ALL_PARTS_MATCH_SCORE
    ELSE IF Len(cty_parts) > 0 /\ InList(cty_parts[1], Words(option_normalized))
    THEN FIRST_WORD_MATCH_SCORE
    ELSE IF Len(cty_parts) > 0 /\ Contains(option_normalized, Take(cty_parts[1], 4))
    THEN WEAK_MATCH_SCORE
    ELSE 0

\* The if/elif cascade of the base tiers; 0 when no rule matches.
BaseTierScore(cty, cty_normalized, cty_parts, option_text, option_normalized) ==
    IF Upper(cty) = head(option_text)
    THEN EXACT_MATCH_SCORE
    ELSE IF \/ StartsWith(option_normalized, cty_normalized \o ",")
            \/ StartsWith(option_normalized, cty_normalized \o " -")
            \/ StartsWith(option_normalized, cty_normalized \o " /")
    THEN NORMALIZED_MATCH_SCORE
    ELSE IF \A k \in 1..Len(cty_parts) : Contains(option_normalized, cty_parts[k])
    THEN (IF Contains(option_normalized, cty_normalized)
          THEN ALL_PARTS_MATCH_SCORE
          ELSE PARTIAL_MATCH_SCORE)
    ELSE IF Len(cty_parts) > 0 /\ InList(cty_parts[1], Words(option_normalized))
    THEN FIRST_WORD_MATCH_SCORE
    ELSE IF Len(cty_parts) > 0 /\ Contains(option_normalized, Take(cty_parts[1], 4))
    THEN WEAK_MATCH_SCORE
    ELSE 0

\* Variant of the country bonus without the test score > 0.
CountryBonus_unguarded(score, ctry, option_text) ==
    IF Contains(option_text, Upper(ctry)) THEN COUNTRY_BONUS_SCORE ELSE 0

\* if score > 0 and country.upper() in option_text: score += COUNTRY_BONUS_SCORE
CountryBonus(score, ctry, option_text) ==
    IF score > 0 /\ Contains(option_text, Upper(ctry)) THEN COUNTRY_BONUS_SCORE ELSE 0

\* RegionAdjustment with a penalty of 700 for a different region code.
RegionAdjustment_penalty700(rgn, option_text) ==
    LET option_parts == CommaParts(option_text)
    IN  IF Truthy(rgn)
        THEN IF Len(option_parts) >= 3
             THEN IF option_parts[2] = Upper(rgn) THEN 300
                  ELSE IF Len(option_parts[2]) <= 3 THEN 0 - 700
                  ELSE 0
             ELSE 0
        ELSE IF Len(option_parts) = 2 THEN 10 ELSE 0

\* RegionAdjustment with a penalty of 300 for a different region code.
RegionAdjustment_penalty300(rgn, option_text) ==
    LET option_parts == CommaParts(option_text)
    IN  IF Truthy(rgn)
        THEN IF Len(option_parts) >= 3
             THEN IF option_parts[2] = Upper(rgn) THEN 300
                  ELSE IF Len(option_parts[2]) <= 3 THEN 0 - 300
                  ELSE 0
             ELSE 0
        ELSE IF Len(option_parts) = 2 THEN 10 ELSE 0

\* The region block: +300, -500, or +10 for a two-part label when no region is asked.
RegionAdjustment(rgn, option_text) ==
    LET option_parts == CommaParts(option_text)
    IN  IF Truthy(rgn)
        THEN IF Len(option_parts) >= 3
             THEN IF option_parts[2] = Upper(rgn) THEN 300
                  ELSE IF Len(option_parts[2]) <= 3 THEN 0 - 500
                  ELSE 0
             ELSE 0
        ELSE IF Len(option_parts) = 2 THEN 10 ELSE 0

_calculate_match_score(cty, cty_normalized, cty_parts, ctry, rgn, option_text, option_normalized) ==
    IF IsDoubledCity(cty, ctry, option_text)
    THEN EXACT_MATCH_SCORE + 100
    ELSE LET base == BaseTierScore(cty, cty_normalized, cty_parts, option_text, option_normalized)
         IN  base + CountryBonus(base, ctry, option_text) + RegionAdjustment(rgn, option_text)

\* The score select_destination gives an option text for a destination.
OptionScore(dest, text) ==
    _calculate_match_score(city(dest), city_normalized(dest), city_parts(dest),
                           country(dest), region(dest),
                           Upper(text), Replace(Upper(text), "-", " "))

(***************************************************************************)
(* _verify_destination_selection                                           *)
(***************************************************************************)
\* city.split()[0].upper() if ' ' in city or '-' in city else city.upper()
city_first_word(cty) ==
    IF Contains(cty, " ") \/ Contains(cty, "-")
    THEN Upper(Words(cty)[1])
    ELSE Upper(cty)

city_matches(cty, selected_text) ==
    \/ Contains(selected_text, Upper(cty))
    \/ Contains(Replace(Upper(selected_text), "-", " "), Replace(Upper(cty), "-", " "))
    \/ Contains(selected_text, city_first_word(cty))

region_matches(rgn, selected_text) ==
    IF Truthy(rgn) THEN Contains(selected_text, Upper(rgn)) ELSE TRUE

country_matches(ctry, selected_text) == Contains(selected_text, Upper(ctry))

_verify_destination_selection(dest, cty, rgn, ctry, selected_text) ==
    IF /\ city_matches(cty, selected_text)
       /\ region_matches(rgn, selected_text)
       /\ country_matches(ctry, selected_text)
    THEN [success |-> TRUE, selected |-> selected_text, error |-> None]
    ELSE [success |-> TRUE, selected |-> selected_text,
          error |-> "Destination mismatch! Expected: " \o dest
                        \o ", Selected: " \o selected_text]

\* sel_result before select_destination has returned.
NoResult == [success |-> FALSE, selected |-> None, error |-> None]

(***************************************************************************)
(* select_destination: the DOM snapshot                                    *)
(***************************************************************************)
\* IsUnavailable without the lower-cased comparison.
IsUnavailable_exactCase(text) == Contains(text, "(No rates available)")

\* "(No rates available)" in text or "(no rates available)" in text.lower()
IsUnavailable(text) ==
    \/ Contains(text, "(No rates available)")
    \/ Contains(Lower(text), "(no rates available)")

\* The stripped text of option element idx (idx counted from 0, as enumerate does).
OptionText(elements, idx) == Strip(elements[idx + 1])

\* if text and len(text) > 1
IsReadable(text) == text # "" /\ Len(text) > 1

\* The indices enumerate(option_elements[:20]) visits.
DomIndices(elements) ==
    0..((IF Len(elements) < DomReadLimit THEN Len(elements) ELSE DomReadLimit) - 1)

RECURSIVE SnapshotAvailableFrom(_, _)
\* all_dropdown_options collected from option idx on: (idx, text) of each readable
\* option that does not carry the marker.
SnapshotAvailableFrom(elements, idx) ==
    IF idx \notin DomIndices(elements) THEN <<>>
    ELSE LET text == OptionText(elements, idx)
         IN  (IF IsReadable(text) /\ ~IsUnavailable(text)
              THEN <<[idx |-> idx, text |-> text]>>
              ELSE <<>>) \o SnapshotAvailableFrom(elements, idx + 1)

RECURSIVE SnapshotUnavailableFrom(_, _)
\* unavailable_options collected from option idx on.
SnapshotUnavailableFrom(elements, idx) ==
    IF idx \notin DomIndices(elements) THEN <<>>
    ELSE LET text == OptionText(elements, idx)
         IN  (IF IsReadable(text) /\ IsUnavailable(text) THEN <<text>> ELSE <<>>)
                 \o SnapshotUnavailableFrom(elements, idx + 1)

\* all_dropdown_options after the snapshot loop.
SnapshotAvailable(elements) == SnapshotAvailableFrom(elements, 0)

\* unavailable_options after the snapshot loop.
SnapshotUnavailable(elements) == SnapshotUnavailableFrom(elements, 0)

(***************************************************************************)
(* select_destination: the steps                                           *)
(***************************************************************************)
\* Lines 157-171: read the option elements into the two lists.
ReadDomOptions ==
    /\ sel_pc = "start"
    /\ all_dropdown_options' = SnapshotAvailable(option_elements)
    /\ unavailable_options' = SnapshotUnavailable(option_elements)
    /\ sel_pc' = "snapshot"
    /\ UNCHANGED <<destination_name, option_elements, scan_pos, best_score,
                   best_match_index, best_option_text, clicked, sel_result,
                   focus_texts, kb_i, options_checked>>
    /\ UNCHANGED outsideSelect

\* Lines 173-211: every option read carries the no-rates marker.
AllUnavailable ==
    /\ sel_pc = "snapshot"
    /\ unavailable_options # <<>>
    /\ all_dropdown_options = <<>>
    /\ sel_result' = [success |-> FALSE, selected |-> None,
                      error |-> "All options show no rates available"]
    /\ sel_pc' = "done"
    /\ UNCHANGED <<destination_name, option_elements, all_dropdown_options,
                   unavailable_options, scan_pos, best_score, best_match_index,
                   best_option_text, clicked, focus_texts, kb_i, options_checked>>
    /\ UNCHANGED outsideSelect

\* Variant of the comparison: an option of equal score replaces the best one.
IsNewBest_orEqual(score, best) == score >= best

\* Variant of the comparison: among options of equal score above 0 the one
\* seen last becomes the best one.
IsNewBest_lastSeen(score, best) == score >= best /\ score > 0

\* if score > best_score: the option becomes the best one.
IsNewBest(score, best) == score > best

\* Lines 222-236: one pass of the scoring loop.
ScoreOption ==
    /\ sel_pc = "snapshot"
    /\ all_dropdown_options # <<>>
    /\ scan_pos < Len(all_dropdown_options)
    /\ LET opt == all_dropdown_options[scan_pos + 1]
           score == OptionScore(destination_name, opt.text)
       IN  IF IsNewBest(score, best_score)
           THEN /\ best_score' = score
                /\ best_match_index' = opt.idx
                /\ best_option_text' = opt.text
           ELSE UNCHANGED <<best_score, best_match_index, best_option_text>>
    /\ scan_pos' = scan_pos + 1
    /\ UNCHANGED <<destination_name, option_elements, sel_pc, all_dropdown_options,
                   unavailable_options, clicked, sel_result, focus_texts, kb_i,
                   options_checked>>
    /\ UNCHANGED outsideSelect

\* The scoring loop has run over a non-empty all_dropdown_options.
Scored ==
    /\ sel_pc = "snapshot"
    /\ all_dropdown_options # <<>>
    /\ scan_pos = Len(all_dropdown_options)

\* if best_option_text and country: country.upper() not in best_option_text.upper()
BestLacksCountry ==
    /\ Truthy(best_option_text)
    /\ country(destination_name) # ""
    /\ ~Contains(Upper(best_option_text), Upper(country(destination_name)))

\* Lines 240-290: the best option does not hold the expected country.
RejectWrongCountry ==
    /\ Scored
    /\ BestLacksCountry
    /\ sel_result' = [success |-> FALSE, selected |-> None,
                      error |-> "No available options for " \o country(destination_name)]
    /\ sel_pc' = "done"
    /\ UNCHANGED <<destination_name, option_elements, all_dropdown_options,
                   unavailable_options, scan_pos, best_score, best_match_index,
                   best_option_text, clicked, focus_texts, kb_i, options_checked>>
    /\ UNCHANGED outsideSelect

\* A resolver that clicks the best option a second time when the POD field does
\* not appear after the first click.
ClickOutcome_retrySecond(outcome, pod_error) ==
    /\ clicked' = IF outcome = "click_raises" THEN clicked
                  ELSE IF outcome = "no_pod"
                  THEN Append(Append(clicked, best_option_text), best_option_text)
                  ELSE Append(clicked, best_option_text)
    /\ sel_result' =
           IF outcome = "click_raises"
           THEN [success |-> FALSE, selected |-> None, error |-> "Click failed"]
           ELSE IF outcome = "no_pod"
           THEN [success |-> FALSE, selected |-> None, error |-> pod_error]
           ELSE _verify_destination_selection(destination_name, city(destination_name),
                    region(destination_name), country(destination_name), best_option_text)
    /\ sel_pc' = "done"
    /\ UNCHANGED <<destination_name, option_elements, all_dropdown_options,
                   unavailable_options, scan_pos, best_score, best_match_index,
                   best_option_text, focus_texts, kb_i, options_checked>>
    /\ UNCHANGED outsideSelect

\* The click of best_element and the wait for the POD field, whose outcomes the
\* browser decides: the click raises, the POD field never appears, or it appears.
ClickOutcome(outcome, pod_error) ==
    /\ clicked' = IF outcome = "click_raises" THEN clicked
                  ELSE Append(clicked, best_option_text)
    /\ sel_result' =
           IF outcome = "click_raises"
           THEN [success |-> FALSE, selected |-> None, error |-> "Click failed"]
           ELSE IF outcome = "no_pod"
           THEN [success |-> FALSE, selected |-> None, error |-> pod_error]
           ELSE _verify_destination_selection(destination_name, city(destination_name),
                    region(destination_name), country(destination_name), best_option_text)
    /\ sel_pc' = "done"
    /\ UNCHANGED <<destination_name, option_elements, all_dropdown_options,
                   unavailable_options, scan_pos, best_score, best_match_index,
                   best_option_text, focus_texts, kb_i, options_checked>>
    /\ UNCHANGED outsideSelect

\* Lines 292-313: the best option reaches the confidence threshold.
ClickBest ==
    /\ Scored
    /\ ~BestLacksCountry
    /\ best_match_index >= 0
    /\ best_score >= MINIMUM_CONFIDENCE_SCORE
    /\ \E outcome \in {"click_raises", "no_pod", "pod"} :
           ClickOutcome(outcome, "POD field not found after selection")

\* Lines 314-331: a best option below the threshold is selected anyway.
ClickBelowThreshold ==
    /\ Scored
    /\ ~BestLacksCountry
    /\ best_match_index >= 0
    /\ best_score < MINIMUM_CONFIDENCE_SCORE
    /\ \E outcome \in {"click_raises", "no_pod", "pod"} :
           ClickOutcome(outcome, "Selection failed")

\* Lines 332-334: no option scored above 0.
NoValidOptions ==
    /\ Scored
    /\ ~BestLacksCountry
    /\ best_match_index < 0
    /\ sel_result' = [success |-> FALSE, selected |-> None,
                      error |-> "No valid options found"]
    /\ sel_pc' = "done"
    /\ UNCHANGED <<destination_name, option_elements, all_dropdown_options,
                   unavailable_options, scan_pos, best_score, best_match_index,
                   best_option_text, clicked, focus_texts, kb_i, options_checked>>
    /\ UNCHANGED outsideSelect

(***************************************************************************)
(* select_destination: the keyboard fallback (no option was read from DOM) *)
(***************************************************************************)
\* for i in range(max_options)
max_options == 20

\* Line 336: neither list of the snapshot holds an option.
EnterFallback ==
    /\ sel_pc = "snapshot"
    /\ all_dropdown_options = <<>>
    /\ unavailable_options = <<>>
    /\ sel_pc' = "keyboard"
    /\ UNCHANGED <<destination_name, option_elements, all_dropdown_options,
                   unavailable_options, scan_pos, best_score, best_match_index,
                   best_option_text, clicked, sel_result, focus_texts, kb_i,
                   options_checked>>
    /\ UNCHANGED outsideSelect

\* The loop goes on: i is in range, a text is left to read and it is not a repeat.
KeyboardLoopRuns ==
    /\ kb_i < max_options
    /\ kb_i < Len(focus_texts)
    /\ ~InList(focus_texts[kb_i + 1], options_checked)

\* Lines 338-468: one pass of the loop. An unreadable focus ("") is skipped;
\* a readable one is scored, with best_match_index = i.
KeyboardRead ==
    /\ sel_pc = "keyboard"
    /\ KeyboardLoopRuns
    /\ LET focused_text == focus_texts[kb_i + 1]
           score == OptionScore(destination_name, focused_text)
       IN  IF focused_text = ""
           THEN UNCHANGED <<options_checked, best_score, best_match_index, best_option_text>>
           ELSE /\ options_checked' = Append(options_checked, focused_text)
                /\ IF IsNewBest(score, best_score)
                   THEN /\ best_score' = score
                        /\ best_match_index' = kb_i
                        /\ best_option_text' = focused_text
                   ELSE UNCHANGED <<best_score, best_match_index, best_option_text>>
    /\ kb_i' = kb_i + 1
    /\ UNCHANGED <<destination_name, option_elements, sel_pc, all_dropdown_options,
                   unavailable_options, scan_pos, clicked, sel_result, focus_texts>>
    /\ UNCHANGED outsideSelect

\* Enter pressed on the best option, then the wait for the POD field.
EnterOutcome(outcome, pod_error) ==
    /\ clicked' = Append(clicked, best_option_text)
    /\ sel_result' =
           IF outcome = "no_pod"
           THEN [success |-> FALSE, selected |-> None, error |-> pod_error]
           ELSE _verify_destination_selection(destination_name, city(destination_name),
                    region(destination_name), country(destination_name), best_option_text)
    /\ sel_pc' = "done"
    /\ UNCHANGED <<destination_name, option_elements, all_dropdown_options,
                   unavailable_options, scan_pos, best_score, best_match_index,
                   best_option_text, focus_texts, kb_i, options_checked>>
    /\ UNCHANGED outsideSelect

\* Lines 478-507
KeyboardSelect ==
    /\ sel_pc = "keyboard"
    /\ ~KeyboardLoopRuns
    /\ best_match_index >= 0
    /\ best_score >= MINIMUM_CONFIDENCE_SCORE
    /\ \E outcome \in {"no_pod", "pod"} :
           EnterOutcome(outcome, "POD field not found after selection")

\* Lines 509-533
KeyboardSelectBelowThreshold ==
    /\ sel_pc = "keyboard"
    /\ ~KeyboardLoopRuns
    /\ best_match_index >= 0
    /\ best_score < MINIMUM_CONFIDENCE_SCORE
    /\ \E outcome \in {"no_pod", "pod"} : EnterOutcome(outcome, "Selection failed")

\* Lines 535-538
NoReadableOptions ==
    /\ sel_pc = "keyboard"
    /\ ~KeyboardLoopRuns
    /\ best_match_index < 0
    /\ sel_result' = [success |-> FALSE, selected |-> None,
                      error |-> "No readable dropdown options found"]
    /\ sel_pc' = "done"
    /\ UNCHANGED <<destination_name, option_elements, all_dropdown_options,
                   unavailable_options, scan_pos, best_score, best_match_index,
                   best_option_text, clicked, focus_texts, kb_i, options_checked>>
    /\ UNCHANGED outsideSelect

(***************************************************************************)
(* select_destination: the calls checked                                   *)
(***************************************************************************)
Queries == {"ATHENS, GREECE", "MUENSTER, NW, GERMANY", "BAD ESSEN, NW, GERMANY"}

\* The option texts the portal may show for a destination typed.
LabelsFor(dest) ==
    IF dest = "ATHENS, GREECE"
    THEN {"ATHENS, AL, USA", "ATHENS, GREECE", "ATHENAI, GREECE", "PIRAEUS, GREECE",
          "ATHENS, ATHENS, GREECE", "ATHENS, GREECE (No rates available)",
          "ATHENAI, GREECE (no rates available)", "X"}
    ELSE IF dest = "MUENSTER, NW, GERMANY"
    THEN {"MUENSTER, NW, GERMANY", "MUENSTER, BB, GERMANY", "MUENCHEN, NW, GERMANY",
          "MUENCHEN, GERMANY", "MUENSTER, GERMANY", "BERLIN, BB, GERMANY",
          "BERLIN, NW, GERMANY", "BERLIN, GERMANY",
          "MUENSTER, NW, GERMANY (No rates available)"}
    ELSE {"BAD ESSEN, BB, GERMANY", "STADT BAD ESSEN, GERMANY", "ESSEN BAD, GERMANY",
          "BAD HONNEF, GERMANY", "BADEN, GERMANY", "BAD ESSEN, GERMANY",
          "BAD NEU ESSEN, GERMANY",
          "Bad Essen, NW, Germany"}

\* The texts the keyboard fallback may read: "" is a focus it could not read.
FocusTextsFor(dest) ==
    IF dest = "ATHENS, GREECE"
    THEN {"", "ATHENS, AL, USA", "ATHENS, GREECE", "ATHENS, GREECE (No rates available)"}
    ELSE IF dest = "MUENSTER, NW, GERMANY"
    THEN {"", "MUENSTER, NW, GERMANY", "MUENCHEN, NW, GERMANY", "BERLIN, BB, GERMANY"}
    ELSE {"", "BAD ESSEN, BB, GERMANY", "BAD HONNEF, GERMANY", "BAD SODEN, GERMANY",
          "BADEN, FRANCE"}

\* The sequences over S of length at most n.
SeqsUpTo(S, n) == UNION {[1..k -> S] : k \in 0..n}

\* select_destination is entered. Either the DOM holds the options, or it holds
\* no readable one and the keyboard fallback reads them one by one.
SelInit ==
    /\ destination_name \in Queries
    /\ \/ /\ option_elements \in SeqsUpTo(LabelsFor(destination_name), MaxOptions)
          /\ focus_texts = <<>>
       \/ /\ option_elements \in {<<>>, <<"X">>}
          /\ focus_texts \in SeqsUpTo(FocusTextsFor(destination_name), MaxOptions)
    /\ sel_pc = "start"
    /\ all_dropdown_options = <<>>
    /\ unavailable_options = <<>>
    /\ scan_pos = 0
    /\ best_score = 0
    /\ best_match_index = 0 - 1
    /\ best_option_text = None
    /\ clicked = <<>>
    /\ sel_result = NoResult
    /\ kb_i = 0
    /\ options_checked = <<>>
    /\ RatesIdle
    /\ RouteIdle
    /\ ExportIdle
    /\ QueryIdle
    /\ ExcelIdle

SelNext ==
    \/ ReadDomOptions
    \/ AllUnavailable
    \/ ScoreOption
    \/ RejectWrongCountry
    \/ ClickBest
    \/ ClickBelowThreshold
    \/ NoValidOptions
    \/ EnterFallback
    \/ KeyboardRead
    \/ KeyboardSelect
    \/ KeyboardSelectBelowThreshold
    \/ NoReadableOptions

SpecSelect == SelInit /\ [][SelNext]_vars

(***************************************************************************)
(* data_processor.py: values of the frames                                 *)
(***************************************************************************)
\* The characters of the frames' texts in code point order.
CodeOrder == " ,-0123456789ABCDEFGHIJKLMNOPQRSTUVWXYZabcdefghijklmnopqrstuvwxyz"

\* ord(c), up to the order of the characters.
CharCode(c) == IndexOf(c, CodeOrder)

RECURSIVE StrLess(_, _)
\* a < b of two str: the first differing character decides, a prefix is smaller.
StrLess(a, b) ==
    IF b = "" THEN FALSE
    ELSE IF a = "" THEN TRUE
    ELSE IF CharAt(a, 1) = CharAt(b, 1) THEN StrLess(From(a, 2), From(b, 2))
    ELSE CharCode(CharAt(a, 1)) < CharCode(CharAt(b, 1))

\* The value of a decimal digit.
DigitOf ==
    "0" :> 0 @@ "1" :> 1 @@ "2" :> 2 @@ "3" :> 3 @@ "4" :> 4 @@ "5" :> 5 @@ "6" :> 6
    @@ "7" :> 7 @@ "8" :> 8 @@ "9" :> 9

RECURSIVE DigitsValue(_, _)
\* The number a text of digits denotes, acc being the value of the digits read.
DigitsValue(s, acc) ==
    IF s = "" THEN acc
    ELSE DigitsValue(From(s, 2), 10 * acc + DigitOf[CharAt(s, 1)])

\* The text is a non-empty run of digits.
IsDigits(s) == s # "" /\ \A i \in 1..Len(s) : CharAt(s, i) \in DOMAIN DigitOf

\* pd.to_numeric(errors='coerce') of one cell: a number stays, a text of digits is
\* parsed, any other text and a missing cell become NaN.
to_numeric(cell) ==
    IF cell.kind = "num" THEN cell
    ELSE IF cell.kind = "str" /\ IsDigits(Strip(cell.text))
    THEN Num(DigitsValue(Strip(cell.text), 0))
    ELSE NaN

\* a + b of two numeric cells: NaN when either is NaN.
AddCells(a, b) == IF isna(a) \/ isna(b) THEN NaN ELSE Num(a.val + b.val)

(***************************************************************************)
(* data_processor.py: add_ocean_rates and add_total_rates                  *)
(***************************************************************************)
\* Lines 63-69: the lookup by POD; a later row of ocean_df overwrites an earlier one.
ocean_lookup(ocean) ==
    [pod \in {ocean[k].POD : k \in 1..Len(ocean)} |->
        LET last == CHOOSE k \in 1..Len(ocean) :
                        /\ ocean[k].POD = pod
                        /\ \A m \in (k + 1)..Len(ocean) : ocean[m].POD # pod
        IN  [ft20 |-> ocean[last].FT20, ft40 |-> ocean[last].FT40]]

\* Lines 72-92: the ocean rate of one inland row, None (NaN in the column) when
\* the POD is unknown or the container type does not start with 20 or 40.
get_ocean_rate(row, lookup) ==
    IF row.POD \notin DOMAIN lookup THEN NaN
    ELSE IF isna(row.ContainerType) THEN NaN
    ELSE LET container_size == Take(row.ContainerType.text, 2)
         IN  IF container_size = "20" THEN lookup[row.POD].ft20
             ELSE IF container_size = "40" THEN lookup[row.POD].ft40
             ELSE NaN

\* Lines 58-102
add_ocean_rates ==
    /\ rate_pc = "loaded"
    /\ inland_df' = [k \in 1..Len(inland_df) |->
                        [OceanRate |-> get_ocean_rate(inland_df[k], ocean_lookup(ocean_df))]
                        @@ inland_df[k]]
    /\ rate_pc' = "ocean_added"
    /\ UNCHANGED <<ocean_df, routes_response>>
    /\ UNCHANGED outsideRates

\* Lines 105-116
add_total_rates ==
    /\ rate_pc = "ocean_added"
    /\ inland_df' = [k \in 1..Len(inland_df) |->
                        LET rate == to_numeric(inland_df[k].Rate)
                            ocean_rate == to_numeric(inland_df[k].OceanRate)
                        IN  [TotalRate |-> AddCells(rate, ocean_rate),
                             Rate |-> rate, OceanRate |-> ocean_rate]
                            @@ inland_df[k]]
    /\ rate_pc' = "total_added"
    /\ UNCHANGED <<ocean_df, routes_response>>
    /\ UNCHANGED outsideRates

(***************************************************************************)
(* data_processor.py: add_cost_ranking                                     *)
(***************************************************************************)
\* a sorts before b in a column of cells; a missing cell sorts last.
CellLess(a, b) ==
    IF isna(a) THEN FALSE
    ELSE IF isna(b) THEN TRUE
    ELSE IF a.kind = "num" THEN a.val < b.val
    ELSE StrLess(a.text, b.text)

\* Variant of the sort key: the rows are ordered without the POD column.
SortKeyLess_withoutPOD(a, b) ==
    \/ StrLess(a.Destination, b.Destination)
    \/ /\ a.Destination = b.Destination
       /\ \/ CellLess(a.ContainerType, b.ContainerType)
          \/ /\ a.ContainerType = b.ContainerType
             /\ CellLess(a.TotalRate, b.TotalRate)

\* Line 124: row a sorts strictly before row b by
\* ['Destination', 'Container Type & Size', 'Total Rate', 'POD'].
SortKeyLess(a, b) ==
    \/ StrLess(a.Destination, b.Destination)
    \/ /\ a.Destination = b.Destination
       /\ \/ CellLess(a.ContainerType, b.ContainerType)
          \/ /\ a.ContainerType = b.ContainerType
             /\ \/ CellLess(a.TotalRate, b.TotalRate)
                \/ /\ a.TotalRate = b.TotalRate
                   /\ StrLess(a.POD, b.POD)

RECURSIVE InsertSorted(_, _)
\* The sorted list with row r put behind the rows that do not sort after it.
InsertSorted(sorted, r) ==
    IF sorted = <<>> THEN <<r>>
    ELSE IF SortKeyLess(r, Head(sorted)) THEN <<r>> \o sorted
    ELSE <<Head(sorted)>> \o InsertSorted(Tail(sorted), r)

RECURSIVE sort_values(_)
\* Line 124: df.sort_values on several columns, rows of equal key keeping their order.
sort_values(df) ==
    IF df = <<>> THEN <<>>
    ELSE InsertSorted(sort_values(SubSeq(df, 1, Len(df) - 1)), df[Len(df)])

\* groupby(['Destination', 'Container Type & Size']): the positions of the frame
\* in the group of row p; a row with a missing key is in no group.
GroupOf(df, p) ==
    IF isna(df[p].ContainerType) THEN {}
    ELSE {q \in 1..Len(df) : /\ df[q].Destination = df[p].Destination
                             /\ df[q].ContainerType = df[p].ContainerType}

\* Variant of the rank: rank(method='min'), equal totals share the lowest rank.
RankFirst_methodMin(df, p) ==
    IF GroupOf(df, p) = {} \/ isna(df[p].TotalRate) THEN NaN
    ELSE Num(1 + Cardinality({q \in GroupOf(df, p) :
                 ~isna(df[q].TotalRate) /\ df[q].TotalRate.val < df[p].TotalRate.val}))

\* Line 129: rank(method='first', ascending=True) of row p within its group: one
\* more than the rows of smaller total, equal totals ranked in frame order; NaN for
\* a missing total.
RankFirst(df, p) ==
    IF GroupOf(df, p) = {} \/ isna(df[p].TotalRate) THEN NaN
    ELSE Num(1 + Cardinality({q \in GroupOf(df, p) :
                 ~isna(df[q].TotalRate) /\ df[q].TotalRate.val < df[p].TotalRate.val})
               + Cardinality({q \in GroupOf(df, p) :
                 q < p /\ df[q].TotalRate = df[p].TotalRate}))

\* Variant of the count: the rows of the whole frame with a total.
GroupCount_wholeFrame(df, p) == Cardinality({q \in 1..Len(df) : ~isna(df[q].TotalRate)})

\* Line 132: transform('count'): the rows of the group with a total.
GroupCount(df, p) == Cardinality({q \in GroupOf(df, p) : ~isna(df[q].TotalRate)})

\* Lines 119-136. astype(int) raises on a NaN rank, and then no frame is returned.
add_cost_ranking ==
    /\ rate_pc = "total_added"
    /\ LET df == sort_values(inland_df)
       IN  IF \E p \in 1..Len(df) : isna(RankFirst(df, p))
           THEN /\ rate_pc' = "raised"
                /\ UNCHANGED inland_df
           ELSE /\ rate_pc' = "ranked"
                /\ inland_df' = [p \in 1..Len(df) |->
                                    [CostRank |-> RankFirst(df, p).val,
                                     TotalRoutes |-> GroupCount(df, p)] @@ df[p]]
    /\ UNCHANGED <<ocean_df, routes_response>>
    /\ UNCHANGED outsideRates

(***************************************************************************)
(* api_server.py: get_routes on the processed file                        *)
(***************************************************************************)
\* Lines 103-106: the rows of the requested destination and container type.
FilterLane(df, destination, container_type) ==
    LET InLane(row) == /\ row.Destination = destination
                       /\ row.ContainerType = Str(container_type)
    IN  SelectSeq(df, InLane)

\* The value of a numeric column of a row.
ColumnValue(row, col) == IF col = "Total Rate" THEN row.TotalRate.val ELSE row.CostRank

RECURSIVE RowLessBy(_, _, _)
\* Row a sorts strictly before row b by the columns by, all ascending.
RowLessBy(by, a, b) ==
    IF by = <<>> THEN FALSE
    ELSE \/ ColumnValue(a, Head(by)) < ColumnValue(b, Head(by))
         \/ /\ ColumnValue(a, Head(by)) = ColumnValue(b, Head(by))
            /\ RowLessBy(Tail(by), a, b)

RECURSIVE InsertSortedBy(_, _, _)
InsertSortedBy(by, sorted, r) ==
    IF sorted = <<>> THEN <<r>>
    ELSE IF RowLessBy(by, r, Head(sorted)) THEN <<r>> \o sorted
    ELSE <<Head(sorted)>> \o InsertSortedBy(by, Tail(sorted), r)

RECURSIVE sort_values_by(_, _)
\* df.sort_values(by), rows of equal key keeping their order.
sort_values_by(df, by) ==
    IF df = <<>> THEN <<>>
    ELSE InsertSortedBy(by, sort_values_by(SubSeq(df, 1, Len(df) - 1), by), df[Len(df)])

\* Variant: drop_duplicates(subset=['POD'], keep='first')
drop_duplicates_byPOD(df) ==
    LET kept == {p \in 1..Len(df) : \A q \in 1..(p - 1) : df[q].POD # df[p].POD}
        RECURSIVE Pick(_)
        Pick(p) == IF p > Len(df) THEN <<>>
                   ELSE (IF p \in kept THEN <<df[p]>> ELSE <<>>) \o Pick(p + 1)
    IN  Pick(1)

\* Line 119: drop_duplicates(subset=['Cost Rank'], keep='first')
drop_duplicates(df) ==
    LET kept == {p \in 1..Len(df) : \A q \in 1..(p - 1) : df[q].CostRank # df[p].CostRank}
        RECURSIVE Pick(_)
        Pick(p) == IF p > Len(df) THEN <<>>
                   ELSE (IF p \in kept THEN <<df[p]>> ELSE <<>>) \o Pick(p + 1)
    IN  Pick(1)

\* Lines 112, 119-120
best_per_rank(filtered_lane) ==
    sort_values_by(
        drop_duplicates(
            sort_values_by(sort_values_by(filtered_lane, <<"Total Rate", "Cost Rank">>),
                           <<"Total Rate">>)),
        <<"Cost Rank">>)

\* Lines 124-133: one entry of routes.
RouteEntry(row) ==
    [rank |-> row.CostRank, pod |-> row.POD, totalRate |-> row.TotalRate.val,
     oceanRate |-> row.OceanRate.val, inlandRate |-> row.Rate.val]

\* Lines 96-141, on the frame load_data reads from the latest processed file.
get_routes_for(df, destination, container_type) ==
    LET lane == FilterLane(df, destination, container_type)
        best == best_per_rank(lane)
    IN  IF lane = <<>>
        THEN [status |-> 404, error |-> "No routes found for criteria"]
        ELSE [status |-> 200, destination |-> destination,
              containerType |-> container_type,
              routes |-> [k \in 1..Len(best) |-> RouteEntry(best[k])],
              totalRoutes |-> Len(best)]

\* The processed file is the frame add_cost_ranking returned ("ranked"), or a
\* file found in the downloads directory ("file").
get_routes ==
    /\ rate_pc \in {"ranked", "file"}
    /\ \E destination \in {"PARIS", "LYON"}, container_type \in {"40HC", "20GP"} :
           routes_response' = get_routes_for(inland_df, destination, container_type)
    /\ rate_pc' = IF rate_pc = "ranked" THEN "served" ELSE "served_file"
    /\ UNCHANGED <<inland_df, ocean_df>>
    /\ UNCHANGED outsideRates

(***************************************************************************)
(* data_processor.py: the frames checked                                   *)
(***************************************************************************)
\* Largest number of rows of the inland-rate frame.
MaxRows == 3

InlandRow(pod, destination, container_type, rate) ==
    [POD |-> pod, Destination |-> destination, ContainerType |-> container_type,
     Rate |-> rate]

\* The rows an inland-rate sheet may hold.
InlandRows ==
    {InlandRow("BUSAN", "PARIS", Str("40HC"), Num(500)),
     InlandRow("ANTWERP", "PARIS", Str("40HC"), Num(600)),
     InlandRow("BUSAN", "PARIS", Str("40HC"), Num(600)),
     InlandRow("ANTWERP", "PARIS", Str("40HC"), Str("500")),
     InlandRow("BUSAN", "PARIS", Str("20GP"), Num(500)),
     InlandRow("ANTWERP", "LYON", Str("40HC"), Num(600)),
     InlandRow("HAMBURG", "PARIS", Str("40HC"), Num(500)),
     InlandRow("BUSAN", "PARIS", Str("45HC"), Num(500)),
     InlandRow("BUSAN", "PARIS", Str("40HC"), Str("N/A"))}

OceanRow(pod, ft20, ft40) == [POD |-> pod, FT20 |-> ft20, FT40 |-> ft40]

\* The ocean-freight sheets: the second lists BUSAN twice.
OceanSheets ==
    {<<OceanRow("BUSAN", Num(400), Num(800)), OceanRow("ANTWERP", Num(350), Num(700))>>,
     <<OceanRow("BUSAN", Num(450), Num(900)), OceanRow("ANTWERP", Num(350), Num(700)),
       OceanRow("BUSAN", Num(400), Num(800))>>}

ProcessedRow(pod, destination, rate, ocean_rate, cost_rank) ==
    [POD |-> pod, Destination |-> destination, ContainerType |-> Str("40HC"),
     Rate |-> Num(rate), OceanRate |-> Num(ocean_rate),
     TotalRate |-> Num(rate + ocean_rate), CostRank |-> cost_rank, TotalRoutes |-> 2]

\* The rows a processed file found in the downloads directory may hold: its
\* Cost Rank column need not come from add_cost_ranking and may repeat a rank.
ProcessedRows ==
    {ProcessedRow("BUSAN", "PARIS", 500, 800, 1),
     ProcessedRow("ANTWERP", "PARIS", 600, 700, 1),
     ProcessedRow("HAMBURG", "PARIS", 500, 900, 2),
     ProcessedRow("ANTWERP", "LYON", 700, 700, 1)}

\* load_data has read the two sheets; idx is the row's index label. Or no
\* pipeline runs and the API server reads a processed file.
RatesInit ==
    /\ \/ /\ \E rows \in SeqsUpTo(InlandRows, MaxRows) :
                 inland_df = [k \in 1..Len(rows) |-> [idx |-> k - 1] @@ rows[k]]
          /\ ocean_df \in OceanSheets
          /\ rate_pc = "loaded"
       \/ /\ \E rows \in SeqsUpTo(ProcessedRows, MaxRows) :
                 inland_df = [k \in 1..Len(rows) |-> [idx |-> k - 1] @@ rows[k]]
          /\ ocean_df = <<>>
          /\ rate_pc = "file"
    /\ routes_response = [status |-> 0]
    /\ SelectIdle
    /\ RouteIdle
    /\ ExportIdle
    /\ QueryIdle
    /\ ExcelIdle

RatesNext ==
    \/ add_ocean_rates
    \/ add_total_rates
    \/ add_cost_ranking
    \/ get_routes

SpecRates == RatesInit /\ [][RatesNext]_vars

(***************************************************************************)
(* Properties of select_destination                                        *)
(***************************************************************************)
Returned == sel_pc = "done"

\* The texts of the options read as available, and their positions.
AvailableAt == 1..Len(all_dropdown_options)

AvailableText(k) == all_dropdown_options[k].text

Score(text) == OptionScore(destination_name, text)

\* The label contains the country of the query (letter case aside).
HoldsCountry(text) == Contains(Upper(text), Upper(country(destination_name)))

\* The label carries the no-rates marker (letter case aside).
CarriesMarker(text) == Contains(Lower(text), "(no rates available)")

WrongCountryRejected ==
    /\ Returned
    /\ sel_result = [success |-> FALSE, selected |-> None,
                     error |-> "No available options for " \o country(destination_name)]

NoRatesAvailable ==
    /\ Returned
    /\ sel_result = [success |-> FALSE, selected |-> None,
                     error |-> "All options show no rates available"]

\* C1: when some candidate's label contains the country of the query,
\* select_destination never returns the wrong-country rejection. Stated for the
\* candidates read as available (readable, no no-rates marker), the reading
\* most favourable to the code.
C1_NoWrongCountryWhenCountryOffered ==
    (\E k \in AvailableAt : HoldsCountry(AvailableText(k))) => ~WrongCountryRejected

HeadIsCityWithCountry(text) ==
    /\ head(Upper(text)) = Upper(city(destination_name))
    /\ HoldsCountry(text)

\* The label matches by the first-4-characters rule only.
WeakOnly(text) ==
    /\ ~IsDoubledCity(city(destination_name), country(destination_name), Upper(text))
    /\ BaseTierScore(city(destination_name), city_normalized(destination_name),
                     city_parts(destination_name), Upper(text),
                     Replace(Upper(text), "-", " ")) = WEAK_MATCH_SCORE

\* C3 as claimed: a head = city label with the country scores strictly higher
\* than a label matching only by the first-4-characters rule, and so the
\* latter is never the one chosen when both are offered.
C3_HeadMatchStrictlyOutranksWeak ==
    Scored =>
        \A i, j \in AvailableAt :
            (HeadIsCityWithCountry(AvailableText(i)) /\ WeakOnly(AvailableText(j)))
            => /\ Score(AvailableText(i)) > Score(AvailableText(j))
               /\ best_option_text # AvailableText(j)

\* The tie of C3: the head match pays the -500 of a different region code while
\* the weak match earns the +300 of the asked region and the country bonus.
RegionTie(strong, weak) ==
    /\ Truthy(region(destination_name))
    /\ RegionAdjustment(region(destination_name), Upper(strong)) = 0 - 500
    /\ RegionAdjustment(region(destination_name), Upper(weak)) = 300
    /\ HoldsCountry(weak)
    /\ Score(strong) = Score(weak)

\* C3 as amended: the head = city label with the country never scores lower
\* than the weak label; it scores strictly higher, and the weak label is not
\* chosen, except in the region tie (550 = 550), where the weak label is
\* chosen only when it is enumerated first.
C3_HeadMatchOutranksWeakExceptRegionTie ==
    Scored =>
        \A i, j \in AvailableAt :
            (HeadIsCityWithCountry(AvailableText(i)) /\ WeakOnly(AvailableText(j)))
            => /\ Score(AvailableText(i)) >= Score(AvailableText(j))
               /\ Score(AvailableText(i)) = Score(AvailableText(j))
                      => RegionTie(AvailableText(i), AvailableText(j))
               /\ best_option_text = AvailableText(j)
                      => /\ RegionTie(AvailableText(i), AvailableText(j))
                         /\ \E k \in 1..(i - 1) : AvailableText(k) = AvailableText(j)

\* C3 witness: the weak label is enumerated first, the head match after it, the
\* query has a region, and the head match is the one chosen.
C3_Witness ==
    /\ Scored
    /\ Truthy(region(destination_name))
    /\ \E i, j \in AvailableAt :
           /\ j < i
           /\ HeadIsCityWithCountry(AvailableText(i))
           /\ WeakOnly(AvailableText(j))
           /\ Score(AvailableText(i)) > Score(AvailableText(j))
           /\ best_option_text = AvailableText(i)

\* The label's middle comma-part is a short region code other than the asked one.
HasOtherShortRegion(text) ==
    LET option_parts == CommaParts(Upper(text))
    IN  /\ Len(option_parts) >= 3
        /\ option_parts[2] # Upper(region(destination_name))
        /\ Len(option_parts[2]) <= 3

\* The base tier of a label for the query.
BaseTier(text) ==
    BaseTierScore(city(destination_name), city_normalized(destination_name),
                  city_parts(destination_name), Upper(text),
                  Replace(Upper(text), "-", " "))

\* A label for the same city (it matches at some tier) with no middle part.
SameCityNoRegionPart(text) ==
    /\ Len(CommaParts(Upper(text))) < 3
    /\ BaseTier(text) > 0

\* C4 as claimed: with region NW asked, a label with a different short region
\* code scores strictly lower than a same-city label without a middle part,
\* whatever the base tier of the latter.
C4_RegionPenaltyDominatesAllTiers ==
    (Scored /\ region(destination_name) = "NW") =>
        \A i, j \in AvailableAt :
            (HasOtherShortRegion(AvailableText(i)) /\ SameCityNoRegionPart(AvailableText(j)))
            => Score(AvailableText(i)) < Score(AvailableText(j))

\* C4 as amended: the same, when the label without a middle part has base tier
\* 600 or higher and the penalised label is not of the CITY, CITY, COUNTRY form.
C4_RegionPenaltyDominatesFromTier600 ==
    (Scored /\ region(destination_name) = "NW") =>
        \A i, j \in AvailableAt :
            (/\ HasOtherShortRegion(AvailableText(i))
             /\ ~IsDoubledCity(city(destination_name), country(destination_name),
                               Upper(AvailableText(i)))
             /\ SameCityNoRegionPart(AvailableText(j))
             /\ BaseTier(AvailableText(j)) >= PARTIAL_MATCH_SCORE)
            => Score(AvailableText(i)) < Score(AvailableText(j))

\* C4 witness: the penalised label is a head match (tier 1000), the label
\* without a middle part sits in tier 600, and the latter scores higher.
C4_Witness ==
    /\ Scored
    /\ region(destination_name) = "NW"
    /\ \E i, j \in AvailableAt :
           /\ HasOtherShortRegion(AvailableText(i))
           /\ BaseTier(AvailableText(i)) = EXACT_MATCH_SCORE
           /\ SameCityNoRegionPart(AvailableText(j))
           /\ BaseTier(AvailableText(j)) = PARTIAL_MATCH_SCORE
           /\ Score(AvailableText(i)) < Score(AvailableText(j))

(***************************************************************************)
(* Properties of add_cost_ranking                                          *)
(***************************************************************************)
\* The positions of frame df whose rows are in the lane of row r.
Lane(df, r) ==
    {q \in 1..Len(df) : /\ df[q].Destination = r.Destination
                        /\ df[q].ContainerType = r.ContainerType}

\* add_cost_ranking has returned the ranked frame.
Ranked == rate_pc = "ranked"

\* C5: a step of add_cost_ranking that returns gives every (Destination,
\* Container Type & Size) group of K rows of its input frame K rows of output whose
\* Cost Rank values are exactly the set 1..K: no gap and no repeat, whatever
\* totals of the group are equal.
C5_RanksAreDensePerGroup ==
    [][(rate_pc = "total_added" /\ rate_pc' = "ranked") =>
          \A p \in 1..Len(inland_df) :
              LET K == Cardinality(Lane(inland_df, inland_df[p]))
                  out == Lane(inland_df', inland_df[p])
              IN  /\ Cardinality(out) = K
                  /\ {inland_df'[q].CostRank : q \in out} = 1..K]_vars

\* A group of three rows, two of them with equal totals, has been ranked.
C5_Witness ==
    /\ Ranked
    /\ \E p, q, s \in 1..Len(inland_df) :
           /\ p # q /\ p # s /\ q # s
           /\ Lane(inland_df, inland_df[p]) = {p, q, s}
           /\ inland_df[p].TotalRate = inland_df[q].TotalRate
           /\ inland_df[s].TotalRate # inland_df[p].TotalRate

\* Row a comes strictly before row b by (Total Rate ascending, POD ascending).
BeforeByTotalThenPOD(a, b) ==
    \/ a.TotalRate.val < b.TotalRate.val
    \/ /\ a.TotalRate.val = b.TotalRate.val
       /\ StrLess(a.POD, b.POD)

\* C6: in the ranked frame every row's Total Rate is its Rate plus its Ocean Rate,
\* and its Cost Rank is its 1-based position among the rows of its lane sorted by
\* (Total Rate ascending, POD ascending): more than the number of rows that come
\* strictly before it and at most the number of rows that do not come after it.
\* The position is a function of the lane's rows alone, not of their input order.
C6_RankIsPositionByTotalThenPOD ==
    Ranked =>
        \A p \in 1..Len(inland_df) :
            LET r == inland_df[p]
                lane == Lane(inland_df, r)
                before == {q \in lane : BeforeByTotalThenPOD(inland_df[q], r)}
                notAfter == {q \in lane : ~BeforeByTotalThenPOD(r, inland_df[q])}
            IN  /\ r.TotalRate = Num(r.Rate.val + r.OceanRate.val)
                /\ Cardinality(before) < r.CostRank
                /\ r.CostRank <= Cardinality(notAfter)

\* Two rows of the lane (PARIS, 40HC) total 1300 (500 + 800 and 600 + 700); the
\* sheet listed BUSAN before ANTWERP, and ANTWERP holds rank 1, BUSAN rank 2.
C6_Witness ==
    /\ Ranked
    /\ \E p, q \in 1..Len(inland_df) :
           /\ inland_df[p].POD = "BUSAN" /\ inland_df[q].POD = "ANTWERP"
           /\ inland_df[p].Destination = "PARIS" /\ inland_df[q].Destination = "PARIS"
           /\ inland_df[p].ContainerType = Str("40HC")
           /\ inland_df[q].ContainerType = Str("40HC")
           /\ inland_df[p].Rate = Num(500) /\ inland_df[p].OceanRate = Num(800)
           /\ inland_df[q].Rate = Num(600) /\ inland_df[q].OceanRate = Num(700)
           /\ inland_df[p].idx < inland_df[q].idx
           /\ inland_df[q].CostRank = 1
           /\ inland_df[p].CostRank = 2

(***************************************************************************)
(* api_server.py: get_hapag_route                                          *)
(***************************************************************************)
\* str(x) if pd.notna(x) and x != '' else default
CellText(cell, default) ==
    IF ~isna(cell) /\ cell.text # "" THEN cell.text ELSE default

\* Line 195: str(row['Description']); str of a missing cell is 'nan'.
RowDesc(row) == IF isna(row.Description) THEN "nan" ELSE row.Description.text

\* Line 196
RowCurr(row) == CellText(row.Curr, "")

\* Lines 200-206, 212-218, 264-270: the record of a charge row.
ChargeRecord(row) ==
    [description |-> RowDesc(row), curr |-> RowCurr(row),
     value20STD |-> CellText(row.v20STD, ""),
     value40STD |-> CellText(row.v40STD, ""),
     value40HC |-> CellText(row.v40HC, "")]

\* Lines 239-244: the record of a sub-option row, '-' for a missing amount.
SubOptionRecord(row) ==
    [description |-> RowDesc(row),
     value20 |-> CellText(row.v20STD, "-"),
     value40 |-> CellText(row.v40STD, "-"),
     value40HC |-> CellText(row.v40HC, "-")]

\* Line 199
IsOceanFreight(desc) == Contains(Lower(desc), "ocean freight")

\* Line 211
IsLandfreight(desc) ==
    Contains(Lower(desc), "destination landfreight") \/ Contains(Lower(desc), "landfreight")

\* Line 237: next_desc.split()[0].lower() if next_desc.split() else ''
first_word(desc) == IF Words(desc) = <<>> THEN "" ELSE Lower(Words(desc)[1])

\* Line 238
LooksLikeSubOption(desc) ==
    \/ InList(first_word(desc), <<"combined", "between", "from", "<", ">">>)
    \/ Contains(desc, ";")

\* Variant of the sub-option test: every row with a currency is absorbed.
IsSubOptionRow_anyDescription(row) == RowCurr(row) # ""

\* Variant of the sub-option test: the row's own currency cell must be empty.
IsSubOptionRow_emptyCurrency(row) ==
    /\ RowCurr(row) = ""
    /\ LooksLikeSubOption(RowDesc(row))

\* Lines 233-238: the inner loop absorbs the row (it has a currency and looks like
\* a sub-option) rather than breaking.
IsSubOptionRow(row) ==
    /\ RowCurr(row) # ""
    /\ LooksLikeSubOption(RowDesc(row))

\* The row the loops look at: filtered.iloc[i].
CurrentRow == filtered[route_i + 1]

\* Lines 170-171: no row for the destination.
NoRoutesFound ==
    /\ route_pc = "start"
    /\ filtered = <<>>
    /\ route_status' = 404
    /\ route_pc' = "done"
    /\ UNCHANGED <<filtered, route_i, ocean_freight, destination_landfreight,
                   other_charges, landfreight_item, sub_options>>
    /\ UNCHANGED outsideRoute

\* Lines 173-192: the route's rows are found and the scan starts.
StartScan ==
    /\ route_pc = "start"
    /\ filtered # <<>>
    /\ route_pc' = "outer"
    /\ UNCHANGED <<filtered, route_i, ocean_freight, destination_landfreight,
                   other_charges, landfreight_item, sub_options, route_status>>
    /\ UNCHANGED outsideRoute

\* Lines 199-208
OceanFreightRow ==
    /\ route_pc = "outer"
    /\ route_i < Len(filtered)
    /\ IsOceanFreight(RowDesc(CurrentRow))
    /\ ocean_freight' = ChargeRecord(CurrentRow)
    /\ route_i' = route_i + 1
    /\ UNCHANGED <<filtered, route_pc, destination_landfreight, other_charges,
                   landfreight_item, sub_options, route_status>>
    /\ UNCHANGED outsideRoute

\* Lines 211-218, 256-260: a land-freight row with a currency is a complete record.
LandfreightLeafRow ==
    /\ route_pc = "outer"
    /\ route_i < Len(filtered)
    /\ ~IsOceanFreight(RowDesc(CurrentRow))
    /\ IsLandfreight(RowDesc(CurrentRow))
    /\ RowCurr(CurrentRow) # ""
    /\ destination_landfreight' = ChargeRecord(CurrentRow)
    /\ route_i' = route_i + 1
    /\ UNCHANGED <<filtered, route_pc, ocean_freight, other_charges,
                   landfreight_item, sub_options, route_status>>
    /\ UNCHANGED outsideRoute

\* Lines 211-223: a land-freight row without currency opens the sub-option scan.
LandfreightHeaderRow ==
    /\ route_pc = "outer"
    /\ route_i < Len(filtered)
    /\ ~IsOceanFreight(RowDesc(CurrentRow))
    /\ IsLandfreight(RowDesc(CurrentRow))
    /\ RowCurr(CurrentRow) = ""
    /\ landfreight_item' = ChargeRecord(CurrentRow)
    /\ sub_options' = <<>>
    /\ route_i' = route_i + 1
    /\ route_pc' = "sub"
    /\ UNCHANGED <<filtered, ocean_freight, destination_landfreight, other_charges,
                   route_status>>
    /\ UNCHANGED outsideRoute

\* Lines 227-245: the inner loop absorbs one row.
AbsorbSubOption ==
    /\ route_pc = "sub"
    /\ route_i < Len(filtered)
    /\ IsSubOptionRow(CurrentRow)
    /\ sub_options' = Append(sub_options, SubOptionRecord(CurrentRow))
    /\ route_i' = route_i + 1
    /\ UNCHANGED <<filtered, route_pc, ocean_freight, destination_landfreight,
                   other_charges, landfreight_item, route_status>>
    /\ UNCHANGED outsideRoute

\* Variant of the grouping: the record keeps its own, empty currency.
WithSubOptions_noBackfill(item, subs, prev_row) ==
    IF subs = <<>> THEN item ELSE [subOptions |-> subs] @@ item

\* Lines 249-255: the scanned record gets its subOptions, and its currency from the
\* row before i.
WithSubOptions(item, subs, prev_row) ==
    IF subs = <<>> THEN item
    ELSE [subOptions |-> subs,
          curr |-> IF RowCurr(prev_row) # "" THEN RowCurr(prev_row) ELSE item.curr]
         @@ item

\* Variant of the end of the inner loop: the row that ends it is passed over.
EndSubOptionScan_skipsRow ==
    /\ route_pc = "sub"
    /\ IF route_i < Len(filtered) THEN ~IsSubOptionRow(CurrentRow) ELSE TRUE
    /\ destination_landfreight' =
           WithSubOptions(landfreight_item, sub_options, filtered[route_i])
    /\ route_i' = IF route_i < Len(filtered) THEN route_i + 1 ELSE route_i
    /\ route_pc' = "outer"
    /\ UNCHANGED <<filtered, ocean_freight, other_charges, landfreight_item,
                   sub_options, route_status>>
    /\ UNCHANGED outsideRoute

\* Lines 227-260: the inner loop ends (no row left, or a row that is no sub-option)
\* and the land-freight record is stored; the row at i is left to the outer loop.
EndSubOptionScan ==
    /\ route_pc = "sub"
    /\ IF route_i < Len(filtered) THEN ~IsSubOptionRow(CurrentRow) ELSE TRUE
    /\ destination_landfreight' =
           WithSubOptions(landfreight_item, sub_options, filtered[route_i])
    /\ route_pc' = "outer"
    /\ UNCHANGED <<filtered, route_i, ocean_freight, other_charges, landfreight_item,
                   sub_options, route_status>>
    /\ UNCHANGED outsideRoute

\* Lines 263-272: any other row with a currency is a charge.
OtherChargeRow ==
    /\ route_pc = "outer"
    /\ route_i < Len(filtered)
    /\ ~IsOceanFreight(RowDesc(CurrentRow))
    /\ ~IsLandfreight(RowDesc(CurrentRow))
    /\ RowCurr(CurrentRow) # ""
    /\ other_charges' = Append(other_charges, ChargeRecord(CurrentRow))
    /\ route_i' = route_i + 1
    /\ UNCHANGED <<filtered, route_pc, ocean_freight, destination_landfreight,
                   landfreight_item, sub_options, route_status>>
    /\ UNCHANGED outsideRoute

\* Lines 263, 272: any other row without currency is skipped.
SkipRow ==
    /\ route_pc = "outer"
    /\ route_i < Len(filtered)
    /\ ~IsOceanFreight(RowDesc(CurrentRow))
    /\ ~IsLandfreight(RowDesc(CurrentRow))
    /\ RowCurr(CurrentRow) = ""
    /\ route_i' = route_i + 1
    /\ UNCHANGED <<filtered, route_pc, ocean_freight, destination_landfreight,
                   other_charges, landfreight_item, sub_options, route_status>>
    /\ UNCHANGED outsideRoute

\* Lines 193, 274-285: no row is left and the route is returned.
ReturnRoute ==
    /\ route_pc = "outer"
    /\ route_i >= Len(filtered)
    /\ route_status' = 200
    /\ route_pc' = "done"
    /\ UNCHANGED <<filtered, route_i, ocean_freight, destination_landfreight,
                   other_charges, landfreight_item, sub_options>>
    /\ UNCHANGED outsideRoute

(***************************************************************************)
(* api_server.py: the requests checked                                     *)
(***************************************************************************)
\* Largest number of rows of the HAPAG frame for one destination.
MaxTableRows == 3

HapagRow(desc, curr, v20, v40, v40hc) ==
    [Description |-> desc, Curr |-> curr, v20STD |-> v20, v40STD |-> v40,
     v40HC |-> v40hc]

\* The rows the HAPAG sheet may hold for a destination.
HapagRows ==
    {HapagRow(Str("Destination Landfreight"), NaN, NaN, NaN, NaN),
     HapagRow(Str("Destination Landfreight"), Str("EUR"), Str("100"), Str("100"), Str("100")),
     HapagRow(Str("Combined Transport"), Str("EUR"), Str("120"), Str("150"), NaN),
     HapagRow(Str("From Landfreight Hub"), Str("USD"), Str("80"), Str("90"), Str("")),
     HapagRow(Str("Between 0 and 10 km"), Str(""), Str("60"), Str("70"), Str("70")),
     HapagRow(Str("Terminal Handling; Import"), Str("EUR"), Str("30"), Str("30"), Str("30")),
     HapagRow(Str("Ocean Freight"), Str("USD"), Str("1000"), Str("1800"), Str("1800")),
     HapagRow(Str("Import Surcharges"), NaN, NaN, NaN, NaN),
     HapagRow(Str("Documentation Fee"), Str("EUR"), Str("25"), Str("25"), Str("25"))}

\* get_hapag_route is called; filtered holds the sheet's rows for the destination.
RouteInit ==
    /\ filtered \in SeqsUpTo(HapagRows, MaxTableRows)
    /\ route_i = 0
    /\ route_pc = "start"
    /\ ocean_freight = NoCharge
    /\ destination_landfreight = NoCharge
    /\ other_charges = <<>>
    /\ landfreight_item = NoCharge
    /\ sub_options = <<>>
    /\ route_status = 0
    /\ SelectIdle
    /\ RatesIdle
    /\ ExportIdle
    /\ QueryIdle
    /\ ExcelIdle

RouteNext ==
    \/ NoRoutesFound
    \/ StartScan
    \/ OceanFreightRow
    \/ LandfreightLeafRow
    \/ LandfreightHeaderRow
    \/ AbsorbSubOption
    \/ EndSubOptionScan
    \/ OtherChargeRow
    \/ SkipRow
    \/ ReturnRoute

SpecRoute == RouteInit /\ [][RouteNext]_vars

\* The request handler runs on: a step that can be taken is taken.
SpecRouteFair == RouteInit /\ [][RouteNext]_vars /\ WF_vars(RouteNext)

(***************************************************************************)
(* Properties of get_hapag_route                                           *)
(***************************************************************************)
\* get_hapag_route has returned the route.
RouteReturned == route_pc = "done" /\ route_status = 200

\* A Destination Landfreight row with empty currency.
IsLandfreightHeader(row) ==
    /\ Contains(Lower(RowDesc(row)), "destination landfreight")
    /\ RowCurr(row) = ""

\* A row with non-empty currency whose first word is one of combined, between,
\* from, < and >.
IsFirstWordSubRow(row) ==
    /\ RowCurr(row) # ""
    /\ first_word(RowDesc(row)) \in {"combined", "between", "from", "<", ">"}

\* The rows of the frame from position k on are all such rows.
AllSubRowsFrom(k) == \A m \in k..Len(filtered) : IsFirstWordSubRow(filtered[m])

\* The number of sub-options a record carries, 0 when it has no subOptions key.
SubOptionCount(rec) == IF "subOptions" \in DOMAIN rec THEN Len(rec.subOptions) ELSE 0

\* The charge records of the response: the two single slots and the other charges.
ResponseRecords ==
    (IF ocean_freight = NoCharge THEN <<>> ELSE <<ocean_freight>>)
    \o (IF destination_landfreight = NoCharge THEN <<>> ELSE <<destination_landfreight>>)
    \o other_charges

\* Every record of the response is a leaf: it has a currency and no subOptions.
AllLeaves ==
    \A k \in 1..Len(ResponseRecords) :
        /\ ResponseRecords[k].curr # ""
        /\ "subOptions" \notin DOMAIN ResponseRecords[k]

\* The frame is a land-freight header followed by N sub-option rows, and the
\* response holds one land-freight record with N subOptions and no other charge.
HeaderThenSubRowsGrouped ==
    (/\ filtered # <<>>
     /\ IsLandfreightHeader(filtered[1])
     /\ AllSubRowsFrom(2))
    => /\ destination_landfreight # NoCharge
       /\ SubOptionCount(destination_landfreight) = Len(filtered) - 1
       /\ other_charges = <<>>

OceanSlotRows == {m \in 1..Len(filtered) : IsOceanFreight(RowDesc(filtered[m]))}

LandSlotRows ==
    {m \in 1..Len(filtered) : /\ ~IsOceanFreight(RowDesc(filtered[m]))
                              /\ IsLandfreight(RowDesc(filtered[m]))}

RECURSIVE Join(_, _)
\* sep.join(list)
Join(list, sep) ==
    IF list = <<>> THEN ""
    ELSE IF Len(list) = 1 THEN list[1]
    ELSE list[1] \o sep \o Join(Tail(list), sep)

\* re.sub(r"\s+", " ", (s or "").strip())
norm(s) == Join(Words(s), " ")

RECURSIVE NonEmptyStripped(_)
\* [l.strip() for l in lines if l.strip()]
NonEmptyStripped(lines) ==
    IF lines = <<>> THEN <<>>
    ELSE (IF Strip(Head(lines)) = "" THEN <<>> ELSE <<Strip(Head(lines))>>)
         \o NonEmptyStripped(Tail(lines))

\* split_first_cell: the first line is the description, the others the remarks.
split_first_cell(text) ==
    LET lines == NonEmptyStripped(Split(text, "\n"))
    IN  IF lines = <<>> THEN [desc |-> "", remarks |-> ""]
        ELSE IF Len(lines) = 1 THEN [desc |-> lines[1], remarks |-> ""]
        ELSE [desc |-> lines[1], remarks |-> Join(Tail(lines), " ")]

\* cells.count() of a row, and cells.nth(j).inner_text() for j counted from 0.
CellCount(row) == Len(row)

InnerText(row, j) == row[j + 1]

\* for i in range(min(row_count, 20)): the rows searched for the header.
HeaderScanLimit == 20

\* Variant of the header test: a row of any number of cells may be the header.
IsHeaderRow_anyCellCount(row) ==
    \E j \in 0..(CellCount(row) - 1) : norm(InnerText(row, j)) \in {"Curr.", "Currency"}

\* The row at index i looks like a header: at least 3 cells, one of them being
\* 'Curr.' or 'Currency' once normalised.
IsHeaderRow(row) ==
    /\ CellCount(row) >= 3
    /\ \E j \in 0..(CellCount(row) - 1) : norm(InnerText(row, j)) \in {"Curr.", "Currency"}

\* The index of the first header row among the first 20 rows, -1 when none is.
FoundHeaderIndex(rows) ==
    LET scanned == {i \in 0..(Len(rows) - 1) : i < HeaderScanLimit /\ IsHeaderRow(rows[i + 1])}
    IN  IF scanned = {} THEN 0 - 1
        ELSE CHOOSE i \in scanned : \A k \in scanned : i <= k

\* header_map: the header row's normalised texts by column index, and when no
\* header row was found {0: "Description", 1: "Curr.", 2: "40STD", 3: "40HC"}.
HeaderMapOf(rows) ==
    LET i == FoundHeaderIndex(rows)
    IN  IF i < 0
        THEN [j \in 0..3 |-> <<"Description", "Curr.", "40STD", "40HC">>[j + 1]]
        ELSE [j \in 0..(CellCount(rows[i + 1]) - 1) |-> norm(InnerText(rows[i + 1], j))]

RECURSIVE DigitPrefix(_, _)
\* The number of digits the text starts with, counted from position i.
DigitPrefix(s, i) ==
    IF i <= Len(s) /\ IsDigit(CharAt(s, i)) THEN 1 + DigitPrefix(s, i + 1) ELSE 0

\* re.match(r'\d+[A-Z]+', col_name)
IsContainerName(col_name) ==
    LET d == DigitPrefix(col_name, 1)
    IN  d >= 1 /\ d < Len(col_name) /\ IsUpperLetter(CharAt(col_name, d + 1))

\* container_columns: the column indices whose header is a container type.
container_columns(hm) == {j \in DOMAIN hm : IsContainerName(hm[j])}

\* curr_idx: the first column whose header holds "Curr", -1 for None.
curr_idx(hm) ==
    LET found == {j \in DOMAIN hm : Contains(hm[j], "Curr") \/ hm[j] = "Currency"}
    IN  IF found = {} THEN 0 - 1
        ELSE CHOOSE j \in found : \A k \in found : j <= k

\* Descriptions of rows that are no data.
skip_values ==
    {"Import Surcharges", "Export Surcharges", "Description", "Curr.", "40STD", "40HC",
     "20STD", ""}

\* container_values of a row: by header name, the normalised text of the cell; of
\* two columns with one name the later wins; a column the row does not reach is
\* left out.
ContainerValues(row, hm) ==
    LET reached == {j \in container_columns(hm) : j < CellCount(row)}
    IN  [name \in {hm[j] : j \in reached} |->
            LET last == CHOOSE j \in reached :
                            /\ hm[j] = name
                            /\ \A k \in reached : hm[k] = name => k <= j
            IN  norm(InnerText(row, last))]

\* The row yields no record (None).
NoRowData == [skipped |-> TRUE]

\* DataExtractor._extract_row_data: the record of the row at row_index, or None
\* for the header row, a row of fewer than 3 cells, or a header-like description.
_extract_row_data(row, hm, hri, row_index) ==
    IF row_index = hri THEN NoRowData
    ELSE IF CellCount(row) < 3 THEN NoRowData
    ELSE LET first == split_first_cell(InnerText(row, 0))
             c == curr_idx(hm)
         IN  IF first.desc \in skip_values THEN NoRowData
             ELSE [description |-> first.desc,
                   curr |-> IF c >= 0 /\ c < CellCount(row)
                            THEN norm(InnerText(row, c)) ELSE "",
                   container_values |-> ContainerValues(row, hm),
                   remarks |-> first.remarks]

\* hapag_checker.extract_import_surcharges_table, lines 403-439: the same record
\* with the table-wide flag has_20std_column.
CheckerRowData(row, hm, hri, row_index) ==
    LET rec == _extract_row_data(row, hm, hri, row_index)
    IN  IF rec = NoRowData THEN NoRowData
        ELSE [has_20std_column |-> \E j \in container_columns(hm) : hm[j] = "20STD"]
             @@ rec

\* The record the running extractor makes of the row at ext_i.
CurrentRowData ==
    IF extractor = "hapag_checker"
    THEN CheckerRowData(table_rows[ext_i + 1], header_map, header_row_index, ext_i)
    ELSE _extract_row_data(table_rows[ext_i + 1], header_map, header_row_index, ext_i)

(***************************************************************************)
(* Extraction and export: the steps                                        *)
(***************************************************************************)
\* Steps 1-3 of extract_import_surcharges_table: the header row and its columns.
FindHeaderRow ==
    /\ export_pc = "start"
    /\ header_row_index' = FoundHeaderIndex(table_rows)
    /\ header_map' = HeaderMapOf(table_rows)
    /\ export_pc' = "rows"
    /\ UNCHANGED <<table_rows, extractor, route_info, ext_i, data, sheet>>
    /\ UNCHANGED outsideExport

\* Step 4, one pass of the loop: the row gives a record.
ExtractRow ==
    /\ export_pc = "rows"
    /\ ext_i < Len(table_rows)
    /\ CurrentRowData # NoRowData
    /\ data' = Append(data, CurrentRowData)
    /\ ext_i' = ext_i + 1
    /\ UNCHANGED <<table_rows, extractor, route_info, export_pc, header_map,
                   header_row_index, sheet>>
    /\ UNCHANGED outsideExport

\* Step 4, one pass of the loop: the row is skipped.
SkipTableRow ==
    /\ export_pc = "rows"
    /\ ext_i < Len(table_rows)
    /\ CurrentRowData = NoRowData
    /\ ext_i' = ext_i + 1
    /\ UNCHANGED <<table_rows, extractor, route_info, export_pc, header_map,
                   header_row_index, data, sheet>>
    /\ UNCHANGED outsideExport

\* The loop has run over every row.
ExtractionDone == export_pc = "rows" /\ ext_i = Len(table_rows)

\* if not table_data: nothing is saved for the destination.
NoDataExtracted ==
    /\ ExtractionDone
    /\ data = <<>>
    /\ export_pc' = "failed"
    /\ UNCHANGED <<table_rows, extractor, route_info, header_map, header_row_index,
                   ext_i, data, sheet>>
    /\ UNCHANGED outsideExport

\* Variant of the validation: any extracted record makes the table valid.
validate_extracted_data_anyRecord(records) == records # <<>>

\* DataExtractor.validate_extracted_data: some record has a description and a
\* non-empty container_values.
validate_extracted_data(records) ==
    /\ records # <<>>
    /\ \E k \in 1..Len(records) :
           /\ records[k].description # ""
           /\ DOMAIN records[k].container_values # {}

\* main_runner, lines 195-198: the validation fails and nothing is saved.
ValidationFailed ==
    /\ ExtractionDone
    /\ extractor = "DataExtractor"
    /\ data # <<>>
    /\ ~validate_extracted_data(data)
    /\ export_pc' = "failed"
    /\ UNCHANGED <<table_rows, extractor, route_info, header_map, header_row_index,
                   ext_i, data, sheet>>
    /\ UNCHANGED outsideExport

\* containers.get(name, "")
GetValue(containers, name) ==
    IF name \in DOMAIN containers THEN containers[name] ELSE ""

\* The worksheet row of fixed columns From, To, Via, Description, Curr., 20STD,
\* 40STD, 40HC, Transport Remarks.
SheetRow(info, rec, val_20std, val_40std, val_40hc) ==
    [From |-> info.from, To |-> info.to, Via |-> info.via,
     Description |-> rec.description, Curr |-> rec.curr,
     v20STD |-> val_20std, v40STD |-> val_40std, v40HC |-> val_40hc,
     TransportRemarks |-> rec.remarks]

\* Variant of the 20STD value: the copy is decided per record, by whether the
\* record itself holds a 20STD value.
Val20STD_perRecord(row_data) ==
    LET containers == row_data.container_values
    IN  IF "20STD" \notin DOMAIN containers /\ GetValue(containers, "40STD") # ""
        THEN GetValue(containers, "40STD")
        ELSE GetValue(containers, "20STD")

\* Variant of the 20STD value: no copy of the 40STD value.
Val20STD_noCopy(row_data) == GetValue(row_data.container_values, "20STD")

\* hapag_checker.save_to_excel, lines 512-522: the 20STD value written for a
\* record, the 40STD value when the source table has no 20STD column at all.
Val20STD(row_data) ==
    LET containers == row_data.container_values
        has_20std_column == IF "has_20std_column" \in DOMAIN row_data
                            THEN row_data.has_20std_column ELSE FALSE
    IN  IF ~has_20std_column /\ GetValue(containers, "40STD") # ""
        THEN GetValue(containers, "40STD")
        ELSE GetValue(containers, "20STD")

\* hapag_checker.save_to_excel: every record is written below the rows present.
save_to_excel ==
    /\ ExtractionDone
    /\ extractor = "hapag_checker"
    /\ data # <<>>
    /\ sheet' = sheet \o [k \in 1..Len(data) |->
                    SheetRow(route_info, data[k], Val20STD(data[k]),
                             GetValue(data[k].container_values, "40STD"),
                             GetValue(data[k].container_values, "40HC"))]
    /\ export_pc' = "saved"
    /\ UNCHANGED <<table_rows, extractor, route_info, header_map, header_row_index,
                   ext_i, data>>
    /\ UNCHANGED outsideExport

\* ExcelExporter._map_container_values: the values by column name, "" when the
\* record holds none.
_map_container_values(row_data) ==
    LET containers == row_data.container_values
    IN  [v20STD |-> GetValue(containers, "20STD"),
         v40STD |-> GetValue(containers, "40STD"),
         v40HC |-> GetValue(containers, "40HC")]

\* ExcelExporter.save_to_excel, called by MainRunner once the data is validated.
ExcelExporter_save_to_excel ==
    /\ ExtractionDone
    /\ extractor = "DataExtractor"
    /\ validate_extracted_data(data)
    /\ sheet' = sheet \o [k \in 1..Len(data) |->
                    LET container_values == _map_container_values(data[k])
                    IN  SheetRow(route_info, data[k], container_values.v20STD,
                                 container_values.v40STD, container_values.v40HC)]
    /\ export_pc' = "saved"
    /\ UNCHANGED <<table_rows, extractor, route_info, header_map, header_row_index,
                   ext_i, data>>
    /\ UNCHANGED outsideExport

(***************************************************************************)
(* Extraction and export: the tables checked                               *)
(***************************************************************************)
\* Largest number of rows of the table below its header row.
MaxDataRows == 2

\* The header rows a price breakdown may show; <<>> stands for none.
HeaderRows ==
    {<<>>,
     <<"Description", "Curr.", "40STD", "40HC">>,
     <<"Description", "Curr.", " 20STD ", "40STD", "40HC">>,
     <<"Description", "Curr.", "40STD", "20STD">>,
     <<"Description", "Curr.", "40HC", "45HC">>,
     <<"Description", "Currency", "Notes">>}

\* The rows below the header; a header row may come after other rows, and a
\* row of two cells may hold 'Curr.'.
DataRows ==
    {<<"Terminal Handling Charge Dest.", "EUR", "120", "150">>,
     <<"Documentation Fee\nper B/L\nimport", " USD ", "50", "", "60">>,
     <<"Security Fee", "EUR", "10">>,
     <<"Low Sulphur Fee", "EUR", "", "70", "80">>,
     <<"Import Surcharges", "", "">>,
     <<"Carrier Fee", "EUR">>,
     <<"45HC", "", "", "">>,
     <<"Description", "Curr.", "40HC", "45HC">>,
     <<"Charges", "Currency", "40STD", "40HC">>,
     <<"Description", "Curr.">>}

\* The numbers of banner rows a dialog may show above the table: none, or so
\* many that the header row is the last one searched (19) or the first one not
\* searched (20).
LeadingBanners == {0, 19, 20}

\* n banner rows.
BannerRows(n) == [k \in 1..n |-> <<"Import Surcharges", "", "">>]

\* The dialog shows the table and one of the two extractors is about to read it.
ExportInit ==
    /\ \E h \in HeaderRows, rows \in SeqsUpTo(DataRows, MaxDataRows), n \in LeadingBanners :
           /\ n > 0 => Len(rows) <= 1
           /\ table_rows = BannerRows(n) \o (IF h = <<>> THEN <<>> ELSE <<h>>) \o rows
    /\ extractor \in {"hapag_checker", "DataExtractor"}
    /\ route_info = [from |-> "BUSAN", to |-> "HAMBURG", via |-> ""]
    /\ export_pc = "start"
    /\ header_map = <<>>
    /\ header_row_index = 0 - 1
    /\ ext_i = 0
    /\ data = <<>>
    /\ sheet = <<>>
    /\ SelectIdle
    /\ RatesIdle
    /\ RouteIdle
    /\ QueryIdle
    /\ ExcelIdle

ExportNext ==
    \/ FindHeaderRow
    \/ ExtractRow
    \/ SkipTableRow
    \/ NoDataExtracted
    \/ ValidationFailed
    \/ save_to_excel
    \/ ExcelExporter_save_to_excel

SpecExport == ExportInit /\ [][ExportNext]_vars

(***************************************************************************)
(* Properties of the export                                                *)
(***************************************************************************)
\* hapag_checker.save_to_excel has written the records of the table extracted.
CheckerSaved == export_pc = "saved" /\ extractor = "hapag_checker"

\* ExcelExporter.save_to_excel has written the records DataExtractor extracted.
ExporterSaved == export_pc = "saved" /\ extractor = "DataExtractor"

\* The header the extraction used has a column named 20STD.
HeaderHas20STD == \E j \in DOMAIN header_map : header_map[j] = "20STD"

\* The value a record holds for a container type, "" when it holds none.
RecordValue(rec, name) ==
    IF name \in DOMAIN rec.container_values THEN rec.container_values[name] ELSE ""

\* C8: when the header of the extracted table has no 20STD column at all, the
\* 20STD value hapag_checker.save_to_excel writes for every record equals that
\* record's 40STD value.
C8_No20STDColumnExports40STD ==
    (CheckerSaved /\ ~HeaderHas20STD) =>
        /\ Len(sheet) = Len(data)
        /\ \A k \in 1..Len(data) : sheet[k].v20STD = RecordValue(data[k], "40STD")

\* A table without 20STD column whose record has 40STD = '120' has been saved with
\* 20STD = '120'.
C8_Witness ==
    /\ CheckerSaved
    /\ ~HeaderHas20STD
    /\ header_row_index >= 0
    /\ \E k \in 1..Len(data) :
           /\ RecordValue(data[k], "40STD") = "120"
           /\ sheet[k].v20STD = "120"

\* C9: the substitution is decided once per table: every record carries the same
\* has_20std_column, which says whether the header has a 20STD column; and when it
\* has one, every record is written with its own 20STD value, which is empty for
\* an empty 20STD cell and for a row too short to reach the column, whatever its
\* 40STD value.
C9_SubstitutionIsPerTable ==
    CheckerSaved =>
        /\ \A k \in 1..Len(data) : data[k].has_20std_column = HeaderHas20STD
        /\ HeaderHas20STD =>
               \A k \in 1..Len(data) :
                   /\ sheet[k].v20STD = RecordValue(data[k], "20STD")
                   /\ ("20STD" \notin DOMAIN data[k].container_values
                          => sheet[k].v20STD = "")

\* Under a header with a 20STD column two records with a 40STD value have been
\* saved with an empty 20STD: one whose row does not reach the 20STD column, and
\* one whose 20STD cell is empty.
C9_Witness ==
    /\ CheckerSaved
    /\ HeaderHas20STD
    /\ \E k \in 1..Len(data) :
           /\ RecordValue(data[k], "40STD") # ""
           /\ "20STD" \notin DOMAIN data[k].container_values
           /\ sheet[k].v20STD = ""
    /\ \E k \in 1..Len(data) :
           /\ RecordValue(data[k], "40STD") # ""
           /\ "20STD" \in DOMAIN data[k].container_values
           /\ sheet[k].v20STD = ""

\* C10: ExcelExporter.save_to_excel writes the 40STD value into the 20STD column
\* of every record whose container_values has no 20STD entry, as the docstring
\* of save_to_excel says.
C10_ExporterCopies40STDInto20STD ==
    ExporterSaved =>
        \A k \in 1..Len(data) :
            "20STD" \notin DOMAIN data[k].container_values
                => sheet[k].v20STD = RecordValue(data[k], "40STD")

(***************************************************************************)
(* Properties of _verify_destination_selection                             *)
(***************************************************************************)
\* A candidate was committed and the verification has returned its dict.
Verified == Returned /\ sel_result.success

\* x appears in the label, whatever the letter case of the label.
AppearsIn(x, label) == Contains(Upper(label), Upper(x))

\* The city, or its first token, appears in the label (hyphens read as spaces).
CityAppearsIn(cty, label) ==
    \/ AppearsIn(cty, label)
    \/ AppearsIn(Replace(cty, "-", " "), Replace(label, "-", " "))
    \/ AppearsIn(city_first_word(cty), label)

\* City, region (if given) and country all appear in the label.
AllAppearIn(dest, label) ==
    /\ CityAppearsIn(city(dest), label)
    /\ Truthy(region(dest)) => AppearsIn(region(dest), label)
    /\ AppearsIn(country(dest), label)

\* C11: once a candidate is committed the verification returns success = True
\* with selected = the committed label, and error = None exactly when the city (or
\* its first token), the region (if given) and the country appear in that label,
\* for labels of any letter case; otherwise error carries the diagnosis. The
\* commit is not undone.
C11_VerifiedExactlyWhenAllAppear ==
    Verified =>
        /\ clicked = <<sel_result.selected>>
        /\ (sel_result.error = None) <=> AllAppearIn(destination_name, sel_result.selected)

(***************************************************************************)
(* Properties of select_destination: the outcome of one call               *)
(***************************************************************************)
Selected == Returned /\ sel_result.success /\ sel_result.error = None

SelectedWithMismatch == Returned /\ sel_result.success /\ sel_result.error # None

\* 'No valid options found' and 'No readable dropdown options found'
NoOptionsFailure ==
    /\ Returned
    /\ sel_result \in {[success |-> FALSE, selected |-> None, error |-> e] :
                          e \in {"No valid options found",
                                 "No readable dropdown options found"}}

\* The click raised, or the POD field did not appear after the click or Enter.
SelectionFailed ==
    /\ Returned
    /\ sel_result \in {[success |-> FALSE, selected |-> None, error |-> e] :
                          e \in {"Click failed", "Selection failed",
                                 "POD field not found after selection"}}

CountTrue(bools) == Cardinality({k \in 1..Len(bools) : bools[k]})

\* One call commits at most one candidate, and has a result only once returned.
AtMostOneCommit ==
    /\ Len(clicked) <= 1
    /\ ~Returned => (clicked = <<>> /\ sel_result = NoResult)
    /\ Returned => (sel_result # NoResult /\ DOMAIN sel_result = {"success", "selected", "error"})
    /\ (Returned /\ sel_result.success) => clicked = <<sel_result.selected>>

STOP_TOKENS == {"LE", "LA", "DE", "DI", "DA", "DEL", "DES", "DU", "DO", "DOS", "DAS",
                "ST", "STE", "SAINT", "SAN", "SANTA", "EL", "AL", "THE", "OF"}

\* tokens = city.upper().replace('-', ' ').split()
tokens(cty) == Words(Replace(Upper(cty), "-", " "))

\* tokens[:n]
FirstTokens(list, n) == SubSeq(list, 1, IF n < Len(list) THEN n ELSE Len(list))

\* Variant of the prefix without the stop-word test.
MeaningfulPrefix_noStopTokens(cty) ==
    IF Len(tokens(cty)[1]) < 3
    THEN Join(FirstTokens(tokens(cty), 2), " ")
    ELSE tokens(cty)[1]

\* Lines 91-98: the prefix of a city of several tokens, before the extension.
MeaningfulPrefix(cty) ==
    IF tokens(cty)[1] \in STOP_TOKENS \/ Len(tokens(cty)[1]) < 3
    THEN Join(FirstTokens(tokens(cty), 2), " ")
    ELSE tokens(cty)[1]

\* Lines 82-104: partial_search for a city; the caller has at least one token
\* or a hyphen in the city.
partial_search_for(cty) ==
    IF Contains(cty, "-") THEN Upper(Split(cty, "-")[1])
    ELSE IF Len(tokens(cty)) = 1 THEN Upper(cty)
    ELSE IF Len(Replace(MeaningfulPrefix(cty), " ", "")) < 6 /\ Len(tokens(cty)) >= 3
    THEN Join(FirstTokens(tokens(cty), 3), " ")
    ELSE MeaningfulPrefix(cty)

\* Lines 49-60: the argument is parsed.
ParseQuery ==
    /\ query_pc = "entered"
    /\ parsed' = [city |-> city(query), country |-> country(query),
                  region |-> region(query)]
    /\ query_pc' = "parsed"
    /\ UNCHANGED <<query, partial_search, dest_input>>
    /\ UNCHANGED outsideQuery

\* tokens[0] of line 92 raises IndexError: the city has no hyphen and no token.
NoFirstToken(cty) == ~Contains(cty, "-") /\ tokens(cty) = <<>>

\* Lines 80-110: the prefix is computed and typed into the input field.
TypePrefix ==
    /\ query_pc = "parsed"
    /\ ~NoFirstToken(parsed.city)
    /\ partial_search' = partial_search_for(parsed.city)
    /\ dest_input' = partial_search_for(parsed.city)
    /\ query_pc' = "typed"
    /\ UNCHANGED <<query, parsed>>
    /\ UNCHANGED outsideQuery

\* Lines 92, 540-544: the IndexError is caught and the call returns a failure
\* with nothing typed.
PrefixRaises ==
    /\ query_pc = "parsed"
    /\ NoFirstToken(parsed.city)
    /\ query_pc' = "failed"
    /\ UNCHANGED <<query, parsed, partial_search, dest_input>>
    /\ UNCHANGED outsideQuery

(***************************************************************************)
(* select_destination: the arguments checked                               *)
(***************************************************************************)
QueryCities == {"", "ATHENS", "Valence", "LE HAVRE", "LA SPEZIA", "PORT KLANG",
                "FOS SUR MER", "HO CHI MINH", "SAN JOSE DEL CABO", "AL AIN",
                "ARQUES-LA-BATAILLE", "LE PUY-EN-VELAY", "-ST", " ", "FOS  SUR MER"}

QueryTails == {"", ", GREECE", ",GREECE ", ", NW, GERMANY", ", , FRANCE", ",", ", ",
               ", NW, GERMANY, EU", ", NW,"}

QueryInit ==
    /\ query \in {c \o tl : c \in QueryCities, tl \in QueryTails}
    /\ query_pc = "entered"
    /\ parsed = [city |-> "", country |-> "", region |-> None]
    /\ partial_search = None
    /\ dest_input = ""
    /\ SelectIdle
    /\ RatesIdle
    /\ RouteIdle
    /\ ExportIdle
    /\ ExcelIdle

QueryNext ==
    \/ ParseQuery
    \/ TypePrefix
    \/ PrefixRaises

SpecQuery == QueryInit /\ [][QueryNext]_vars

(***************************************************************************)
(* Properties of the parsing of the argument                               *)
(***************************************************************************)
Parsed == query_pc \in {"parsed", "typed", "failed"}

RECURSIVE LastIndexFrom(_, _, _)
\* The last position at or before i of character c in s, 0 when there is none.
LastIndexFrom(c, s, i) ==
    IF i < 1 THEN 0
    ELSE IF CharAt(s, i) = c THEN i
    ELSE LastIndexFrom(c, s, i - 1)

CommaCount(s) == Cardinality({i \in 1..Len(s) : CharAt(s, i) = ","})

\* The text after the last comma, surrounding whitespace removed.
LastPart(s) == Strip(From(s, LastIndexFrom(",", s, Len(s)) + 1))

\* The text between the first and the last comma, surrounding whitespace removed.
MiddlePart(s) ==
    Strip(SubSeq(s, IndexOf(",", s) + 1, LastIndexFrom(",", s, Len(s)) - 1))

\* Region is set exactly for three parts, and is then the middle part.
RegionOnlyOfThreeParts ==
    /\ parsed.region # None <=> CommaCount(query) = 2
    /\ CommaCount(query) = 2 => parsed.region = MiddlePart(query)

\* C13 as claimed: for an argument of at least two comma-separated parts the
\* country is the last part and is never empty, and the region is set only
\* for exactly three parts and is then the middle part.
C13_CountryLastNeverEmpty ==
    (Parsed /\ CommaCount(query) >= 1) =>
        /\ parsed.country = LastPart(query)
        /\ parsed.country # ""
        /\ RegionOnlyOfThreeParts

\* C13, amended: for an argument of at least two comma-separated parts the
\* country is the last part, empty exactly when nothing but whitespace follows
\* the last comma, and the region is set only for exactly three parts and is
\* then the middle part.
C13_CountryLastEmptyOnlyWhenBlank ==
    (Parsed /\ CommaCount(query) >= 1) =>
        /\ parsed.country = LastPart(query)
        /\ parsed.country = "" <=> From(query, LastIndexFrom(",", query, Len(query)) + 1)
                                       \in {"", " "}
        /\ RegionOnlyOfThreeParts

\* C13 witness: a three-part argument parsed into city, region and country,
\* and a four-part one parsed without region.
C13_Witness ==
    /\ Parsed
    /\ \/ /\ query = "LE HAVRE, NW, GERMANY"
          /\ parsed = [city |-> "LE HAVRE", country |-> "GERMANY", region |-> "NW"]
       \/ /\ query = "LE HAVRE, NW, GERMANY, EU"
          /\ parsed = [city |-> "LE HAVRE", country |-> "EU", region |-> None]

(***************************************************************************)
(* Properties of the rate pipeline                                         *)
(***************************************************************************)
\* The row's POD is absent from the ocean table, or its container type starts
\* with neither '20' nor '40'.
Unmatched(row) ==
    \/ \A k \in 1..Len(ocean_df) : ocean_df[k].POD # row.POD
    \/ isna(row.ContainerType)
    \/ Take(row.ContainerType.text, 2) \notin {"20", "40"}

\* C14: on a frame holding a row whose POD is absent from the ocean table or
\* whose container type starts with neither '20' nor '40', the three steps
\* complete without error and keep every row, the row having a missing Ocean
\* Rate and a missing Total Rate.
C14_UnmatchedRowsKeptWithoutError ==
    (\E p \in 1..Len(inland_df) : Unmatched(inland_df[p])) =>
        /\ rate_pc # "raised"
        /\ rate_pc \in {"total_added", "ranked"} =>
               \A p \in 1..Len(inland_df) :
                   Unmatched(inland_df[p]) =>
                       isna(inland_df[p].OceanRate) /\ isna(inland_df[p].TotalRate)

\* The largest Cost Rank among the rows of the lane of row r.
LargestRank(df, r) ==
    CHOOSE n \in {df[q].CostRank : q \in Lane(df, df[r])} :
        \A q \in Lane(df, df[r]) : df[q].CostRank <= n

\* C15: in the frame add_cost_ranking returns, every row's Total Routes is the
\* number of rows of its (Destination, Container Type & Size) group and is the
\* largest Cost Rank of that group.
C15_TotalRoutesIsGroupSizeAndLargestRank ==
    Ranked =>
        \A r \in 1..Len(inland_df) :
            /\ inland_df[r].TotalRoutes = Cardinality(Lane(inland_df, inland_df[r]))
            /\ inland_df[r].TotalRoutes = LargestRank(inland_df, r)

\* C15 witness: a ranked frame of three rows in two groups, of two rows and of
\* one row.
C15_Witness ==
    /\ Ranked
    /\ Len(inland_df) = 3
    /\ \E r \in 1..3 : inland_df[r].TotalRoutes = 2 /\ inland_df[r].CostRank = 2
    /\ \E r \in 1..3 : inland_df[r].TotalRoutes = 1

\* get_routes has answered with the routes of a lane.
RoutesServed == rate_pc \in {"served", "served_file"} /\ routes_response.status = 200

\* The rows of the processed frame in the lane the response names.
RequestedLane ==
    {p \in 1..Len(inland_df) :
        /\ inland_df[p].Destination = routes_response.destination
        /\ inland_df[p].ContainerType = Str(routes_response.containerType)}

\* C16: the routes get_routes returns are rows of the requested lane, in
\* strictly increasing rank order (so at most one per rank); on the frame
\* add_cost_ranking returned nothing is removed: every row of the lane is
\* one route and totalRoutes is the lane's row count.
C16_RoutesAreTheLaneInRankOrder ==
    RoutesServed =>
        LET routes == routes_response.routes
        IN  /\ \A k \in 1..(Len(routes) - 1) : routes[k].rank < routes[k + 1].rank
            /\ \A k \in 1..Len(routes) :
                   \E p \in RequestedLane : routes[k] = RouteEntry(inland_df[p])
            /\ routes_response.totalRoutes = Len(routes)
            /\ rate_pc = "served" =>
                   /\ \A p \in RequestedLane :
                          \E k \in 1..Len(routes) : routes[k] = RouteEntry(inland_df[p])
                   /\ Len(routes) = Cardinality(RequestedLane)

\* C16 witness: a lane of three rows, two of them of the same POD and two of
\* equal total, answered with three routes.
C16_Witness ==
    /\ RoutesServed
    /\ rate_pc = "served"
    /\ Len(routes_response.routes) = 3
    /\ \E j, k \in 1..3 : /\ j < k
                          /\ routes_response.routes[j].pod = routes_response.routes[k].pod
    /\ \E j, k \in 1..3 : /\ j < k
                          /\ routes_response.routes[j].totalRate =
                                 routes_response.routes[k].totalRate

(***************************************************************************)
(* Properties of the validation of an extracted table                      *)
(***************************************************************************)
\* MainRunner reported the destination as failed and saved nothing.
ReportedFailed == extractor = "DataExtractor" /\ export_pc = "failed" /\ sheet = <<>>

\* The record has a description and a value, possibly '', for some container.
IsUsableRecord(rec) == rec.description # "" /\ DOMAIN rec.container_values # {}

\* C17 as claimed: a table is judged invalid, reported as failed and not
\* saved only if zero records were extracted; with at least one record it is
\* valid.
C17_InvalidOnlyWithZeroRecords ==
    /\ ReportedFailed => data = <<>>
    /\ (extractor = "DataExtractor" /\ ExtractionDone /\ data # <<>>) =>
           validate_extracted_data(data)

\* C17, amended: a table is judged invalid, reported as failed and not saved
\* only if no extracted record has both a description and a container value
\* (zero records included); with at least one such record it is valid and
\* its records are saved.
C17_InvalidOnlyWithoutUsableRecord ==
    /\ ReportedFailed => \A k \in 1..Len(data) : ~IsUsableRecord(data[k])
    /\ (extractor = "DataExtractor" /\ ExtractionDone) =>
           (validate_extracted_data(data) <=> \E k \in 1..Len(data) : IsUsableRecord(data[k]))
    /\ ExporterSaved =>
           /\ \E k \in 1..Len(data) : IsUsableRecord(data[k])
           /\ Len(sheet) = Len(data)
    /\ (extractor = "DataExtractor" /\ export_pc \notin {"failed", "saved"}) => sheet = <<>>

\* C17 witness: two records were extracted, none with a container value, and
\* the destination was reported as failed.
C17_Witness ==
    /\ ReportedFailed
    /\ Len(data) = 2
    /\ \A k \in 1..2 : data[k].description # "" /\ DOMAIN data[k].container_values = {}

(***************************************************************************)
(* Properties of _calculate_match_score: labels that match no tier         *)
(***************************************************************************)
\* The label matches no tier rule: it is not of the CITY, CITY, COUNTRY form
\* for the city and its base tier score is 0.
MatchesNoTier(text) ==
    /\ ~IsDoubledCity(city(destination_name), country(destination_name), Upper(text))
    /\ BaseTier(text) = 0

\* The options of the snapshot scored so far.
ScoredAt == {k \in AvailableAt : k <= scan_pos}

\* The region adjustment as the design states it: +300 for the asked region as
\* middle part, -500 for another short code, +10 for a two-part label when no
\* region is asked.
StatedRegionAdjustment(text) ==
    IF region(destination_name) # None /\ region(destination_name) # ""
    THEN IF Len(CommaParts(Upper(text))) >= 3
            /\ CommaParts(Upper(text))[2] = Upper(region(destination_name))
         THEN 300
         ELSE IF HasOtherShortRegion(text) THEN 0 - 500 ELSE 0
    ELSE IF Len(CommaParts(Upper(text))) = 2 THEN 10 ELSE 0

\* C18 as claimed: a label that matches no tier rule has final score 0.
C18_NoTierLabelScoresZero ==
    \A k \in ScoredAt : MatchesNoTier(AvailableText(k)) => Score(AvailableText(k)) = 0

\* C18, amended: only the country bonus depends on the base tier score being
\* above 0. A label that matches no tier rule gets no country bonus and ends
\* with the region adjustment alone (0, +300, -500 or +10); a label with a
\* base tier score above 0 gets +50 when it contains the country.
C18_OnlyCountryBonusNeedsTier ==
    \A k \in ScoredAt :
        LET text == AvailableText(k)
        IN  ~IsDoubledCity(city(destination_name), country(destination_name), Upper(text)) =>
                Score(text) = BaseTier(text)
                              + (IF BaseTier(text) > 0 /\ HoldsCountry(text) THEN 50 ELSE 0)
                              + StatedRegionAdjustment(text)

\* C18 witness: labels that match no tier rule and hold the country have been
\* scored +300 (asked region as middle part) and -500 (another region code).
C18_Witness ==
    /\ Scored
    /\ \E j, k \in ScoredAt :
           /\ MatchesNoTier(AvailableText(j)) /\ HoldsCountry(AvailableText(j))
           /\ MatchesNoTier(AvailableText(k)) /\ HoldsCountry(AvailableText(k))
           /\ Score(AvailableText(j)) = 300
           /\ Score(AvailableText(k)) = 0 - 500

(***************************************************************************)
(* Properties of select_destination: candidates of score 0                 *)
(***************************************************************************)
\* The texts scored: the available options of the snapshot, or the texts the
\* keyboard fallback read.
CandidateTexts ==
    {AvailableText(k) : k \in AvailableAt}
        \cup {options_checked[k] : k \in 1..Len(options_checked)}

\* A committed candidate of score 0 is committed only when no other scores above 0.
ZeroNeverBeatsPositive ==
    \A i \in 1..Len(clicked) :
        Score(clicked[i]) = 0 => \A text \in CandidateTexts : Score(text) <= 0

\* C19 as claimed: a candidate of score 0 is never chosen while another scores
\* above 0, and when it is the only candidate the call does not end with a
\* no-options failure.
C19_SoleZeroCandidateIsSelected ==
    Returned =>
        /\ ZeroNeverBeatsPositive
        /\ (\E text \in CandidateTexts : CandidateTexts = {text} /\ Score(text) = 0)
               => ~NoOptionsFailure

\* C19, amended: a candidate of score 0 is never chosen, whether or not another
\* candidate scores above 0; when no candidate scores above 0 nothing is
\* committed and the call ends with a no-options failure.
C19_ZeroCandidateIsNeverSelected ==
    Returned =>
        /\ \A i \in 1..Len(clicked) : Score(clicked[i]) > 0
        /\ (CandidateTexts # {} /\ \A text \in CandidateTexts : Score(text) <= 0)
               => (NoOptionsFailure /\ clicked = <<>>)

\* C19 witness: the only candidate read from the DOM scores 0 and the call
\* returned 'No valid options found'.
C19_Witness ==
    /\ Returned
    /\ Len(all_dropdown_options) = 1
    /\ Score(AvailableText(1)) = 0
    /\ sel_result.error = "No valid options found"
    /\ clicked = <<>>

(***************************************************************************)
(* Properties of the search prefix                                         *)
(***************************************************************************)
PrefixTyped == query_pc = "typed"

\* The first n whitespace-separated tokens of s, joined by one space.
LeadingTokens(s, n) == Join(SubSeq(Words(s), 1, n), " ")

\* The prefix as stated, letter case as in the city: the text before the first
\* hyphen; else the city when it is one token; else the first token, or the
\* first two when the first is a stop-word or shorter than 3 characters,
\* extended to the first three when that prefix has fewer than 6 non-space
\* characters and the city has at least 3 tokens.
StatedPrefix(cty) ==
    IF IndexOf("-", cty) > 0 THEN SubSeq(cty, 1, IndexOf("-", cty) - 1)
    ELSE IF Len(Words(cty)) = 1 THEN cty
    ELSE LET first == Words(cty)[1]
             start == IF Upper(first) \in STOP_TOKENS \/ Len(first) < 3
                      THEN LeadingTokens(cty, 2) ELSE first
         IN  IF Len(start) - (Len(Words(start)) - 1) < 6 /\ Len(Words(cty)) >= 3
             THEN LeadingTokens(cty, 3)
             ELSE start

\* s with every run of whitespace replaced by one space.
Collapsed(s) == Join(Words(s), " ")

\* C20 as claimed: the typed prefix is the stated one (in upper case), and is
\* a non-empty leading part of the city.
C20_PrefixIsNonEmptyLeadingPart ==
    PrefixTyped =>
        /\ partial_search = Upper(StatedPrefix(parsed.city))
        /\ dest_input = partial_search
        /\ partial_search # ""
        /\ StartsWith(Upper(parsed.city), partial_search)

\* C20, amended: the typed prefix is the stated one (in upper case); it is
\* empty exactly when the city begins with a hyphen, and it is a leading part
\* of the upper-cased city once runs of whitespace are taken as one space.
C20_PrefixIsLeadingPartUnlessHyphenFirst ==
    PrefixTyped =>
        /\ partial_search = Upper(StatedPrefix(parsed.city))
        /\ dest_input = partial_search
        /\ partial_search = "" <=> StartsWith(parsed.city, "-")
        /\ StartsWith(Collapsed(Upper(parsed.city)), Collapsed(partial_search))

\* C20 witness: the three-token city HO CHI MINH has a first token shorter
\* than 3 characters, its two-token prefix has 5 non-space characters, and
\* the three tokens were typed.
C20_Witness ==
    /\ PrefixTyped
    /\ parsed.city = "HO CHI MINH"
    /\ dest_input = "HO CHI MINH"

(***************************************************************************)
(* Properties of _calculate_match_score: the all-parts tier                *)
(***************************************************************************)
\* The positions of s at which t occurs.
OccurrencesOf(t, s) == {i \in 1..(Len(s) - Len(t) + 1) : SubSeq(s, i, i + Len(t) - 1) = t}

RECURSIVE OccurInOrderFrom(_, _, _)
\* The tokens occur in s one after the other, without overlap, from position
\* start on; other text may stand between them.
OccurInOrderFrom(toks, s, start) ==
    IF toks = <<>> THEN TRUE
    ELSE \E i \in OccurrencesOf(Head(toks), s) :
             /\ i >= start
             /\ OccurInOrderFrom(Tail(toks), s, i + Len(Head(toks)))

\* Every token of the city occurs in the normalized label, in the city's order.
TokensInOrder(text) ==
    OccurInOrderFrom(city_parts(destination_name), Replace(Upper(text), "-", " "), 1)

\* The normalized city occurs in the normalized label as one piece of text.
CityInOnePiece(text) ==
    OccurrencesOf(city_normalized(destination_name), Replace(Upper(text), "-", " ")) # {}

\* The label is scored by the all-parts tier: no exact match, no normalized
\* prefix match, and every token of the city occurs in it.
InAllPartsTier(text) ==
    /\ ~IsDoubledCity(city(destination_name), country(destination_name), Upper(text))
    /\ BaseTier(text) \in {ALL_PARTS_MATCH_SCORE, PARTIAL_MATCH_SCORE}

ReadAt == {i \in 1..kb_i : i <= Len(focus_texts) /\ focus_texts[i] # ""}

\* The positions scored so far whose label has the highest score among them.
TopScored == {k \in ScoredAt : \A j \in ScoredAt : Score(AvailableText(j)) <= Score(AvailableText(k))}

\* The focus positions read so far whose text has the highest score among them.
TopRead == {i \in ReadAt : \A j \in ReadAt : Score(focus_texts[j]) <= Score(focus_texts[i])}

\* The first position of a non-empty set of positions.
FirstOf(S) == CHOOSE k \in S : \A j \in S : k <= j

ViaKeyboard == options_checked # <<>>

\* The best option exists and its label lacks the country asked for.
BestLacksAskedCountry ==
    /\ best_match_index >= 0
    /\ country(destination_name) # ""
    /\ ~HoldsCountry(best_option_text)

\* C23: no option whose label lacks the country of the query is ever clicked
\* or entered, and a call whose best option lacks the country returns the
\* wrong-country rejection with nothing selected, on the DOM path and in the
\* keyboard fallback alike.
C23_NeverCommitsWrongCountry ==
    /\ \A c \in 1..Len(clicked) :
           country(destination_name) # "" => HoldsCountry(clicked[c])
    /\ (Returned /\ BestLacksAskedCountry) => (WrongCountryRejected /\ clicked = <<>>)

\* The same statement for the calls that read their options from the DOM.
C23_DomPathNeverCommitsWrongCountry ==
    ~ViaKeyboard => C23_NeverCommitsWrongCountry

\* A rejection for the wrong country was returned on the DOM path.
C23_DomRejection ==
    WrongCountryRejected /\ ~ViaKeyboard /\ BestLacksAskedCountry

(***************************************************************************)
(* Properties of select_destination: options without rates                 *)
(***************************************************************************)
\* C28: an option that carries the no-rates marker is never scored (it is in
\* neither list of scored texts) and never clicked or entered, whatever the
\* other options are.
C28_MarkedOptionNeverScoredNorSelected ==
    /\ \A k \in AvailableAt : ~CarriesMarker(AvailableText(k))
    /\ \A k \in 1..Len(options_checked) : ~CarriesMarker(options_checked[k])
    /\ \A c \in 1..Len(clicked) : ~CarriesMarker(clicked[c])
    /\ ~CarriesMarker(best_option_text)

\* The same statement for the calls that read their options from the DOM.
C28_DomPathMarkedOptionNeverSelected ==
    ~ViaKeyboard => C28_MarkedOptionNeverScoredNorSelected

\* On the DOM path a marked option was the only one to match city and country,
\* and the call returned after committing a worse option or rejecting.
C28_DomMarkedBestMatch ==
    /\ Returned /\ ~ViaKeyboard
    /\ all_dropdown_options # <<>>
    /\ \E u \in 1..Len(unavailable_options) :
           /\ HoldsCountry(unavailable_options[u])
           /\ \A k \in AvailableAt :
                  Score(AvailableText(k)) < Score(unavailable_options[u])

(***************************************************************************)
(* Properties of the row filter                                            *)
(***************************************************************************)
\* The bare container-type labels of the table: the three usual ones and every
\* container type found in the header.
ContainerLabels ==
    {"20STD", "40STD", "40HC"} \cup {header_map[j] : j \in container_columns(header_map)}

\* The header of the table has been read.
HeaderRead == export_pc # "start"

\* C24: no record is emitted for a row whose description is empty, is
\* 'Import Surcharges', 'Export Surcharges' or 'Description', or is a bare
\* container-type label of any size found in the header ('45HC' included).
C24_StructuralRowsAreSkipped ==
    HeaderRead =>
        \A r \in 1..Len(data) :
            data[r].description \notin
                {"", "Import Surcharges", "Export Surcharges", "Description"}
                    \cup ContainerLabels

\* No record is emitted for a description of the fixed list of the code.
C24_ListedRowsAreSkipped ==
    \A r \in 1..Len(data) : data[r].description \notin skip_values

\* A row 'Import Surcharges' of three cells has been passed over.
C24_BannerSkipped ==
    /\ ExtractionDone
    /\ \E i \in 1..Len(table_rows) :
           /\ i - 1 # header_row_index
           /\ CellCount(table_rows[i]) >= 3
           /\ split_first_cell(InnerText(table_rows[i], 0)).desc = "Import Surcharges"

(***************************************************************************)
(* Properties of the header discovery                                      *)
(***************************************************************************)
\* A cell of the row is 'Curr.' or 'Currency'.
HasCurrencyCell(row) ==
    \E j \in 1..Len(row) : norm(row[j]) \in {"Curr.", "Currency"}

\* The index of the first row among the first 20 that has a currency cell and
\* at least min_cells cells; -1 when there is none.
StatedHeaderIndex(rows, min_cells) ==
    LET S == {i \in 0..(Len(rows) - 1) :
                 /\ i < 20
                 /\ Len(rows[i + 1]) >= min_cells
                 /\ HasCurrencyCell(rows[i + 1])}
    IN  IF S = {} THEN 0 - 1 ELSE CHOOSE i \in S : \A k \in S : i <= k

\* The layout assumed when no header row is found.
AssumedLayout == [j \in 0..3 |-> <<"Description", "Curr.", "40STD", "40HC">>[j + 1]]

\* The columns of the header row at index i, or the assumed layout.
StatedHeaderMap(rows, i) ==
    IF i < 0 THEN AssumedLayout
    ELSE [j \in 0..(Len(rows[i + 1]) - 1) |-> norm(rows[i + 1][j + 1])]

\* The rows passed so far that give a record when the header row is at index h:
\* every row but that one with 3 cells or more and a description that is no
\* structural label.
RecordRows(h) ==
    {i \in 0..(ext_i - 1) :
        /\ i # h
        /\ Len(table_rows[i + 1]) >= 3
        /\ split_first_cell(table_rows[i + 1][1]).desc \notin skip_values}

\* The header discovery as stated, for header rows of at least min_cells cells:
\* the header row is the first such row with a currency cell among the first
\* 20, its texts are the columns, it alone is left out for being the header,
\* and without such a row the assumed layout is used and the rows are read.
HeaderDiscovery(min_cells) ==
    HeaderRead =>
        LET h == StatedHeaderIndex(table_rows, min_cells)
        IN  /\ header_row_index = h
            /\ header_map = StatedHeaderMap(table_rows, h)
            /\ Len(data) = Cardinality(RecordRows(h))
            /\ (h < 0 /\ ExtractionDone /\ RecordRows(h) # {}) => data # <<>>

\* C25 as claimed: the header row is the first row among the first 20 with a
\* cell 'Curr.' or 'Currency', whatever its number of cells; that row alone is
\* left out of the extraction; without one the layout {0: Description,
\* 1: Curr., 2: 40STD, 3: 40HC} is assumed and extraction continues.
C25_HeaderIsFirstCurrencyRow == HeaderDiscovery(0)

\* C25, amended: the same, for the first row among the first 20 that has at
\* least 3 cells and a cell 'Curr.' or 'Currency'.
C25_HeaderIsFirstCurrencyRowOfThreeCells == HeaderDiscovery(3)

\* C25 witness: a row of two cells with 'Curr.' comes first, the header row
\* found is a later one, and the rows have been read.
C25_Witness ==
    /\ ExtractionDone
    /\ Len(table_rows) >= 2
    /\ Len(table_rows[1]) < 3 /\ HasCurrencyCell(table_rows[1])
    /\ header_row_index > 0

\* Two header rows: the second one is read as data.
C25_SecondHeaderIsData ==
    /\ ExtractionDone
    /\ header_row_index >= 0
    /\ \E r \in 1..Len(data) : data[r].curr \in {"Curr.", "Currency"}

\* The header row is the 21st row: the assumed layout is used and rows are read.
C25_HeaderBeyondScan ==
    /\ ExtractionDone
    /\ Len(table_rows) > 20 /\ HasCurrencyCell(table_rows[21])
    /\ header_row_index < 0 /\ header_map = AssumedLayout
    /\ data # <<>>

\* The header row is the 20th row and is found.
C25_HeaderLastScanned ==
    ExtractionDone /\ header_row_index = 19 /\ data # <<>>

(***************************************************************************)
(* Properties of get_hapag_route: the sub-option scan                      *)
(***************************************************************************)
\* The description begins with one of combined, between, from, < and >, or
\* contains a semicolon.
HasSubOptionDescription(row) ==
    \/ first_word(RowDesc(row)) \in {"combined", "between", "from", "<", ">"}
    \/ \E p \in 1..Len(RowDesc(row)) : CharAt(RowDesc(row), p) = ";"

\* The amount of a sub-option, '-' when the cell is missing or empty.
StatedAmount(cell) == IF isna(cell) THEN "-" ELSE IF cell.text = "" THEN "-" ELSE cell.text

StatedSubOption(row) ==
    [description |-> RowDesc(row), value20 |-> StatedAmount(row.v20STD),
     value40 |-> StatedAmount(row.v40STD), value40HC |-> StatedAmount(row.v40HC)]

\* The row fits the pattern of a sub-option: its own currency cell is empty
\* (or, for currency_empty = FALSE, not empty) and its description fits.
Fits(row, currency_empty) ==
    /\ (RowCurr(row) = "") <=> currency_empty
    /\ HasSubOptionDescription(row)

\* A step of the scan behind a land-freight row with empty currency: a row is
\* absorbed only if it fits the pattern, and then as the stated sub-option; the
\* scan ends only at the end of the rows or at a row that breaks the pattern,
\* and hands the sub-options absorbed to the land-freight record.
SubOptionScanStep(currency_empty) ==
    /\ (route_pc = "outer" /\ route_pc' = "sub") =>
           /\ IsLandfreight(RowDesc(CurrentRow)) /\ RowCurr(CurrentRow) = ""
           /\ sub_options' = <<>>
    /\ (route_pc = "sub" /\ route_pc' = "sub") =>
           /\ Fits(CurrentRow, currency_empty)
           /\ sub_options' = Append(sub_options, StatedSubOption(CurrentRow))
           /\ route_i' = route_i + 1
    /\ (route_pc = "sub" /\ route_pc' = "outer") =>
           /\ route_i < Len(filtered) => ~Fits(CurrentRow, currency_empty)
           /\ route_i' = route_i
           /\ SubOptionCount(destination_landfreight') = Len(sub_options)
           /\ sub_options # <<>> => destination_landfreight'.subOptions = sub_options

\* C26 as claimed: after a land-freight row with empty currency the scan
\* absorbs each immediately following row whose own currency cell is also empty
\* and whose description begins with combined, between, from, < or > or holds
\* a semicolon, with '-' for missing amounts, and stops at the first other row.
C26_AbsorbsRowsWithEmptyCurrency == [][SubOptionScanStep(TRUE)]_vars

\* C26, amended: the rows absorbed are those whose own currency cell is not
\* empty and whose description fits; the scan stops at the first row with an
\* empty currency cell or another description.
C26_AbsorbsRowsWithCurrency == [][SubOptionScanStep(FALSE)]_vars

\* C26 witness: behind the header one row was absorbed with '-' for its missing
\* 40HC amount, and the scan stopped at a row that fits but for its empty
\* currency.
C26_Witness ==
    /\ RouteReturned
    /\ Len(filtered) = 3
    /\ IsLandfreightHeader(filtered[1])
    /\ Fits(filtered[2], FALSE)
    /\ Fits(filtered[3], TRUE)
    /\ SubOptionCount(destination_landfreight) = 1
    /\ destination_landfreight.subOptions[1].value40HC = "-"

IsGroupOf(rec, h) ==
    /\ IsLandfreight(RowDesc(filtered[h])) /\ RowCurr(filtered[h]) = ""
    /\ rec.description = RowDesc(filtered[h])
    /\ h + Len(rec.subOptions) <= Len(filtered)
    /\ \A s \in 1..Len(rec.subOptions) :
           rec.subOptions[s] = StatedSubOption(filtered[h + s])
    /\ rec.curr = RowCurr(filtered[h + Len(rec.subOptions)])

ConsumesRow == route_i' = route_i + 1

\* The outer loop classifies the row at i: ocean freight, land freight (leaf or
\* header of a group), other charge, or a row without currency that is dropped.
ClassifiedByOuterLoop ==
    /\ route_pc = "outer"
    /\ \/ ocean_freight' = ChargeRecord(CurrentRow) /\ IsOceanFreight(RowDesc(CurrentRow))
       \/ /\ destination_landfreight' = ChargeRecord(CurrentRow)
          /\ IsLandfreight(RowDesc(CurrentRow)) /\ RowCurr(CurrentRow) # ""
       \/ /\ landfreight_item' = ChargeRecord(CurrentRow) /\ route_pc' = "sub"
          /\ IsLandfreight(RowDesc(CurrentRow)) /\ RowCurr(CurrentRow) = ""
       \/ /\ other_charges' = Append(other_charges, ChargeRecord(CurrentRow))
          /\ RowCurr(CurrentRow) # ""
       \/ /\ UNCHANGED <<ocean_freight, destination_landfreight, other_charges>>
          /\ RowCurr(CurrentRow) = ""

\* The inner loop absorbs the row at i as a sub-option.
AbsorbedAsSubOption ==
    /\ route_pc = "sub" /\ route_pc' = "sub"
    /\ sub_options' = Append(sub_options, SubOptionRecord(CurrentRow))

\* A step of the scan: i never moves back and never by more than one row; a row
\* is consumed either by the inner loop, as sub-option, or by the outer loop;
\* the step that ends the inner loop leaves i on the row that ended it, with the
\* outer loop in charge; the scan returns only behind the last row.
RowScanStep ==
    /\ filtered' = filtered
    /\ route_i' \in {route_i, route_i + 1}
    /\ ConsumesRow =>
           /\ route_i < Len(filtered)
           /\ (AbsorbedAsSubOption /\ ~ClassifiedByOuterLoop)
                  \/ (ClassifiedByOuterLoop /\ ~AbsorbedAsSubOption)
    /\ (route_pc = "sub" /\ route_pc' # "sub") =>
           route_pc' = "outer" /\ route_i' = route_i
    /\ (route_pc = "outer" /\ route_pc' = "done") => route_i = Len(filtered)

\* The scan has ended.
ScanEnded == route_pc = "done"

\* C29: the row scan ends for every row sequence, and every row is consumed
\* exactly once, absorbed as a sub-option or classified by the outer loop; the
\* row that ends a sub-option scan is left to the outer loop, not passed over.
C29_ScanEndsAndConsumesEachRowOnce ==
    /\ [][RowScanStep]_vars
    /\ [](RouteReturned => route_i = Len(filtered))
    /\ <>ScanEnded

\* C29 witness: the row behind a land-freight header ended the sub-option scan
\* at once and is among the other charges of the returned route.
C29_Witness ==
    /\ RouteReturned
    /\ Len(filtered) = 3 /\ route_i = 3
    /\ IsLandfreightHeader(filtered[1])
    /\ ~IsSubOptionRow(filtered[2])
    /\ SubOptionCount(destination_landfreight) = 0
    /\ \E k \in 1..Len(other_charges) : other_charges[k] = ChargeRecord(filtered[2])

(***************************************************************************)
(* quick_download_package/excel_manager.py: ExcelManager                   *)
(***************************************************************************)
\* Largest number of save_to_excel calls of one run.
MaxSaves == 3

\* Largest number of runs (reset_for_new_run starts the next one).
MaxRuns == 2

\* Largest number of workbooks that earlier runs have left in output_dir.
MaxPreviousFiles == 2

\* config_loader.generate_filename on one day (a run names all its saves alike),
\* split by os.path.splitext.
filename_name == "ONE_Inland_Rate_20250101"

filename_ext == ".xlsx"

\* str(version) for the versions that occur.
VersionText == <<"1", "2", "3", "4", "5", "6", "7", "8", "9">>

\* The versions a file name may get: each run creates at most one file.
Versions == 1..(MaxPreviousFiles + MaxRuns)

\* os.path.join(output_dir, filename) for version 1, and
\* os.path.join(output_dir, f"{name}_{version}{ext}") for the others.
PathOf(version) ==
    IF version = 1 THEN filename_name \o filename_ext
    ELSE filename_name \o "_" \o VersionText[version] \o filename_ext

Paths == {PathOf(v) : v \in Versions}

\* os.path.exists(path)
exists(path) == disk[path] >= 0

\* _create_versioned_filename: the first version from 2 on that names no file.
_create_versioned_filename ==
    LET free == {v \in Versions : v >= 2 /\ ~exists(PathOf(v))}
    IN  PathOf(CHOOSE v \in free : \A w \in free : v <= w)

\* _handle_first_save: the path of the run's file.
_handle_first_save ==
    IF exists(PathOf(1)) THEN _create_versioned_filename ELSE PathOf(1)

\* A call of save_to_excel and what it returned, for the log.
SaveCall(rows, write_ok, returned) ==
    [rows |-> rows, write_ok |-> write_ok, returned |-> returned]

\* _write_excel(df, filepath) with first_save_done and current_run_filepath as
\* the caller has left them: rows already in the run's file are read and put
\* before the new ones; to_excel writes the file or raises.
_write_excel(rows, write_ok, filepath, done, current) ==
    LET total == IF done /\ filepath = current /\ exists(filepath)
                 THEN disk[filepath] + rows ELSE rows
    IN  IF write_ok
        THEN /\ disk' = [disk EXCEPT ![filepath] = total]
             /\ written' = written \cup {filepath}
             /\ save_log' = Append(save_log, SaveCall(rows, write_ok, TRUE))
        ELSE /\ UNCHANGED <<disk, written>>
             /\ save_log' = Append(save_log, SaveCall(rows, write_ok, FALSE))

\* save_to_excel(df, filename, destination), df having the given number of
\* rows; write_ok tells whether to_excel can write the file.
ExcelManager_save_to_excel ==
    /\ excel_pc = "run"
    /\ Len(save_log) < MaxSaves
    /\ \E rows \in 0..1, write_ok \in BOOLEAN :
           IF rows = 0
           THEN \* lines 51-54: no data
                /\ save_log' = Append(save_log, SaveCall(rows, write_ok, FALSE))
                /\ UNCHANGED <<disk, first_save_done, current_run_filepath, written>>
           ELSE IF ~first_save_done
           THEN \* lines 60-61, 86-95, 66
                /\ current_run_filepath' = _handle_first_save
                /\ first_save_done' = TRUE
                /\ _write_excel(rows, write_ok, _handle_first_save, TRUE,
                                _handle_first_save)
           ELSE IF ~exists(current_run_filepath)
           THEN \* lines 109, 68-72: pd.read_excel raises, save_to_excel returns False
                /\ save_log' = Append(save_log, SaveCall(rows, write_ok, FALSE))
                /\ UNCHANGED <<disk, first_save_done, current_run_filepath, written>>
           ELSE \* lines 62-63, 97-123, 66
                /\ _write_excel(rows, write_ok, current_run_filepath, first_save_done,
                                current_run_filepath)
                /\ UNCHANGED <<first_save_done, current_run_filepath>>
    /\ UNCHANGED <<excel_pc, runs>>
    /\ UNCHANGED outsideExcel

\* reset_for_new_run: the next run begins.
reset_for_new_run ==
    /\ excel_pc = "run"
    /\ runs < MaxRuns
    /\ current_run_filepath' = None
    /\ first_save_done' = FALSE
    /\ written' = {}
    /\ save_log' = <<>>
    /\ runs' = runs + 1
    /\ UNCHANGED <<excel_pc, disk>>
    /\ UNCHANGED outsideExcel

\* ExcelManager.__init__ in a directory that holds the files of earlier runs:
\* none, or the versions 1..k of the file name.
ExcelInit ==
    /\ excel_pc = "run"
    /\ \E k \in 0..MaxPreviousFiles :
           disk = [p \in Paths |-> IF \E v \in 1..k : p = PathOf(v) THEN 1 ELSE 0 - 1]
    /\ first_save_done = FALSE
    /\ current_run_filepath = None
    /\ written = {}
    /\ save_log = <<>>
    /\ runs = 1
    /\ SelectIdle
    /\ RatesIdle
    /\ RouteIdle
    /\ ExportIdle
    /\ QueryIdle

ExcelNext ==
    \/ ExcelManager_save_to_excel
    \/ reset_for_new_run

SpecExcel == ExcelInit /\ [][ExcelNext]_vars

(***************************************************************************)
(* Properties of ExcelManager                                              *)
(***************************************************************************)
\* The calls of the run that had data to save and a file system that would
\* have taken the write.
SavableCalls == {k \in 1..Len(save_log) : save_log[k].rows > 0 /\ save_log[k].write_ok}

\* C30: whenever first_save_done is True, current_run_filepath names a file
\* this run has written successfully; and a save_to_excel call that has data
\* and whose write can succeed returns True, also after a failed write on the
\* run's first save.
C30_RunFileIsWrittenAndLaterSavesSucceed ==
    /\ first_save_done => current_run_filepath \in written
    /\ \A k \in SavableCalls : save_log[k].returned

\* When the write of the run's first save succeeded, every later call that has
\* data and can write returns True, and the run's file holds the rows of all
\* successful calls.
C30_AfterSuccessfulFirstWrite ==
    (first_save_done /\ current_run_filepath \in written) =>
        \A k \in SavableCalls :
            (\E j \in 1..k : save_log[j].returned) => save_log[k].returned

\* The first write of the run failed and a later call, which had data and could
\* write, returned False.
C30_LaterSaveFailed ==
    /\ Len(save_log) >= 2
    /\ save_log[1].rows > 0 /\ ~save_log[1].write_ok
    /\ \E k \in SavableCalls : k > 1 /\ ~save_log[k].returned

====
